---- MODULE Spec2Model ----
(***************************************************************************)
(* Model of the SmartHome price prediction service (src/main.py).          *)
(*                                                                         *)
(* Text is a sequence of one-character strings, so that trimming,          *)
(* lower-casing, substring search and digit extraction are computed the    *)
(* way the Python code computes them.  A Python value that may be None,    *)
(* a number or a text is a record [t, v, s].  Prices are counted in        *)
(* millions of Rupiah; a quotient is kept as a pair [num, den].            *)
(***************************************************************************)
EXTENDS Integers, Sequences, FiniteSets, TLC

VARIABLES
    pipeline_components,  \* global: the unpickled bundle, or None
    predictor,            \* global: SmartHomePricePrediction(bundle), or None
    pc,                   \* where the process is
    request,              \* the call or HTTP request being served
    df,                   \* preprocess_input's frame before feature selection
    response,             \* what the call or the handler returned
    calls                 \* how often the call or the handler, so far, has
                          \* called preprocess_input and a model's predict

vars == <<pipeline_components, predictor, pc, request, df, response, calls>>

\* ---------------------------------------------------------------- values

None == [t |-> "none", v |-> 0, s |-> <<>>]

Num(n) == [t |-> "int", v |-> n, s |-> <<>>]

Str(chars) == [t |-> "str", v |-> 0, s |-> chars]

IsNone(x) == x.t = "none"

IsInt(x) == x.t = "int"

IsStr(x) == x.t = "str"

SetMin(S) == CHOOSE m \in S : \A o \in S : m <= o

SetMax(S) == CHOOSE m \in S : \A o \in S : m >= o

\* ------------------------------------------------------------------ text

UpperChars ==
    <<"A","B","C","D","E","F","G","H","I","J","K","L","M",
      "N","O","P","Q","R","S","T","U","V","W","X","Y","Z">>

LowerChars ==
    <<"a","b","c","d","e","f","g","h","i","j","k","l","m",
      "n","o","p","q","r","s","t","u","v","w","x","y","z">>

DigitChars == <<"0","1","2","3","4","5","6","7","8","9">>

UpperSet == {UpperChars[k] : k \in 1..Len(UpperChars)}

LowerSet == {LowerChars[k] : k \in 1..Len(LowerChars)}

DigitSet == {DigitChars[k] : k \in 1..Len(DigitChars)}

IsUpper(c) == c \in UpperSet

IsLower(c) == c \in LowerSet

IsAlpha(c) == IsUpper(c) \/ IsLower(c)

IsDigit(c) == c \in DigitSet

IsSpace(c) == c \in {" ", "\t", "\n"}

LowerChar(c) ==
    IF IsUpper(c)
    THEN LowerChars[CHOOSE k \in 1..Len(UpperChars) : UpperChars[k] = c]
    ELSE c

UpperChar(c) ==
    IF IsLower(c)
    THEN UpperChars[CHOOSE k \in 1..Len(LowerChars) : LowerChars[k] = c]
    ELSE c

\* F(x), with x computed once
Apply(F(_), x) == CHOOSE y \in {F(v) : v \in {x}} : TRUE

\* the sequence e(1), ..., e(n), as a tuple
SeqOf(n, e(_)) == [k \in 1..n |-> e(k)] \o <<>>

RECURSIVE SeqSum(_)
SeqSum(xs) == IF xs = <<>> THEN 0 ELSE Head(xs) + SeqSum(Tail(xs))

\* str.lower()
lower(s) == SeqOf(Len(s), LAMBDA k : LowerChar(s[k]))

\* str.title(): a cased character is upper-cased after an uncased one (or at
\* the start) and lower-cased after a cased one
title(s) ==
    SeqOf(Len(s), LAMBDA k :
        IF k > 1 /\ IsAlpha(s[k - 1]) THEN LowerChar(s[k]) ELSE UpperChar(s[k]))

\* str.strip()
strip(s) ==
    LET keep == {k \in 1..Len(s) : ~IsSpace(s[k])}
    IN  IF keep = {} THEN <<>> ELSE SubSeq(s, SetMin(keep), SetMax(keep))

\* needle in hay
contains(hay, needle) ==
    \E k \in 0..(Len(hay) - Len(needle)) :
        SubSeq(hay, k + 1, k + Len(needle)) = needle

\* str.replace(old, new), old not empty: every non-overlapping occurrence,
\* left to right
RECURSIVE replace(_, _, _)
replace(s, old, new) ==
    IF Len(s) < Len(old) THEN s
    ELSE IF SubSeq(s, 1, Len(old)) = old
         THEN new \o replace(SubSeq(s, Len(old) + 1, Len(s)), old, new)
         ELSE <<s[1]>> \o replace(Tail(s), old, new)

\* ------------------------------------------------- DataProcessor: zones

Semarang_Barat == <<"S","e","m","a","r","a","n","g"," ","B","a","r","a","t">>

Semarang_Timur == <<"S","e","m","a","r","a","n","g"," ","T","i","m","u","r">>

Semarang_Utara == <<"S","e","m","a","r","a","n","g"," ","U","t","a","r","a">>

Semarang_Selatan == <<"S","e","m","a","r","a","n","g"," ","S","e","l","a","t","a","n">>

Semarang_Tengah == <<"S","e","m","a","r","a","n","g"," ","T","e","n","g","a","h">>

Semarang_Lainnya == <<"S","e","m","a","r","a","n","g"," ","L","a","i","n","n","y","a">>

zona_mapping ==
   <<
      <<<<"S","e","m","a","r","a","n","g"," ","B","a","r","a","t">>, Semarang_Barat>>,
      <<<<"K","a","l","i","b","a","n","t","e","n","g">>, Semarang_Barat>>,
      <<<<"K","a","l","i","b","a","n","t","e","n","g"," ","K","u","l","o","n">>, Semarang_Barat>>,
      <<<<"K","a","l","i","b","a","n","t","e","n","g"," ","k","i","d","u","l">>, Semarang_Barat>>,
      <<<<"K","r","a","p","y","a","k">>, Semarang_Barat>>,
      <<<<"M","a","n","y","a","r","a","n">>, Semarang_Barat>>,
      <<<<"N","g","a","l","i","y","a","n">>, Semarang_Barat>>,
      <<<<"T","u","g","u">>, Semarang_Barat>>,
      <<<<"T","u","g","u","r","e","j","o">>, Semarang_Barat>>,
      <<<<"J","e","r","a","k","a","h">>, Semarang_Barat>>,
      <<<<"P","u","s","p","o","g","i","w","a","n","g">>, Semarang_Barat>>,
      <<<<"G","a","j","a","h"," ","M","u","n","g","k","u","r">>, Semarang_Barat>>,
      <<<<"S","a","m","p","a","n","g","a","n">>, Semarang_Barat>>,
      <<<<"P","u","s","p","o","w","a","r","n","o">>, Semarang_Barat>>,
      <<<<"P","u","r","i"," ","A","n","j","a","s","m","o","r","o">>, Semarang_Barat>>,
      <<<<"A","n","j","a","s","m","o","r","o">>, Semarang_Barat>>,
      <<<<"K","a","r","a","n","g","a","y","u">>, Semarang_Barat>>,
      <<<<"P","u","s","p","o","n","j","o","l","o">>, Semarang_Barat>>,
      <<<<"G","r","a","h","a"," ","P","a","d","m","a">>, Semarang_Barat>>,
      <<<<"K","e","m","b","a","n","g"," ","A","r","u","m">>, Semarang_Barat>>,
      <<<<"T","a","w","a","n","g","m","a","s">>, Semarang_Barat>>,
      <<<<"P","a","m","u","l","a","r","s","i","h">>, Semarang_Barat>>,
      <<<<"M","i","j","e","n">>, Semarang_Barat>>,
      <<<<"S","i","m","o","n","g","a","n">>, Semarang_Barat>>,
      <<<<"B","o","n","g","s","a","r","i">>, Semarang_Barat>>,
      <<<<"B","S","B"," ","C","i","t","y">>, Semarang_Barat>>,
      <<<<"S","e","m","a","r","a","n","g"," ","T","i","m","u","r">>, Semarang_Timur>>,
      <<<<"P","e","d","u","r","u","n","g","a","n">>, Semarang_Timur>>,
      <<<<"T","l","o","g","o","s","a","r","i">>, Semarang_Timur>>,
      <<<<"G","e","n","u","k">>, Semarang_Timur>>,
      <<<<"G","a","y","a","m","s","a","r","i">>, Semarang_Timur>>,
      <<<<"K","e","d","u","n","g","m","u","n","d","u">>, Semarang_Timur>>,
      <<<<"K","e","t","i","l","e","n","g">>, Semarang_Timur>>,
      <<<<"B","a","n","g","e","t","a","y","u">>, Semarang_Timur>>,
      <<<<"B","a","n","g","e","t","a","y","u"," ","W","e","t","a","n">>, Semarang_Timur>>,
      <<<<"M","u","k","t","i","h","a","r","j","o">>, Semarang_Timur>>,
      <<<<"G","e","m","a","h">>, Semarang_Timur>>,
      <<<<"P","l","a","m","o","n","g","a","n">>, Semarang_Timur>>,
      <<<<"M","e","t","e","s","e","h">>, Semarang_Timur>>,
      <<<<"M","l","a","t","i","h","a","r","j","o">>, Semarang_Timur>>,
      <<<<"B","a","n","y","u","m","a","n","i","k">>, Semarang_Timur>>,
      <<<<"T","e","m","b","a","l","a","n","g">>, Semarang_Timur>>,
      <<<<"B","u","k","i","t"," ","S","a","r","i">>, Semarang_Timur>>,
      <<<<"S","e","n","d","a","n","g","m","u","l","y","o">>, Semarang_Timur>>,
      <<<<"S","a","m","b","i","r","o","t","o">>, Semarang_Timur>>,
      <<<<"S","r","o","n","d","o","l">>, Semarang_Timur>>,
      <<<<"P","u","d","a","k"," ","P","a","y","u","n","g">>, Semarang_Timur>>,
      <<<<"N","g","e","s","r","e","p">>, Semarang_Timur>>,
      <<<<"J","a","n","g","l","i">>, Semarang_Timur>>,
      <<<<"P","e","n","g","g","a","r","o","n">>, Semarang_Timur>>,
      <<<<"C","i","t","r","a","g","r","a","n","d">>, Semarang_Timur>>,
      <<<<"R","e","j","o","s","a","r","i">>, Semarang_Timur>>,
      <<<<"K","a","l","i","c","a","r","i">>, Semarang_Timur>>,
      <<<<"M","a","j","a","p","a","h","i","t">>, Semarang_Timur>>,
      <<<<"P","e","d","a","l","a","n","g","a","n">>, Semarang_Timur>>,
      <<<<"K","a","l","i","g","a","w","e">>, Semarang_Timur>>,
      <<<<"S","e","m","a","r","a","n","g"," ","U","t","a","r","a">>, Semarang_Utara>>,
      <<<<"T","a","n","a","h"," ","M","a","s">>, Semarang_Utara>>,
      <<<<"P","a","n","g","g","u","n","g">>, Semarang_Utara>>,
      <<<<"K","u","n","i","n","g","a","n">>, Semarang_Utara>>,
      <<<<"P","l","o","m","b","o","k","a","n">>, Semarang_Utara>>,
      <<<<"T","a","n","j","u","n","g"," ","M","a","s">>, Semarang_Utara>>,
      <<<<"B","a","n","d","a","r","h","a","r","j","o">>, Semarang_Utara>>,
      <<<<"K","a","m","p","u","n","g"," ","K","a","l","i">>, Semarang_Utara>>,
      <<<<"S","e","m","a","r","a","n","g"," ","S","e","l","a","t","a","n">>, Semarang_Selatan>>,
      <<<<"W","o","n","o","d","r","i">>, Semarang_Selatan>>,
      <<<<"P","l","e","b","u","r","a","n">>, Semarang_Selatan>>,
      <<<<"C","a","n","d","i","s","a","r","i">>, Semarang_Selatan>>,
      <<<<"J","a","t","i","n","g","a","l","e","h">>, Semarang_Selatan>>,
      <<<<"C","a","n","d","i"," ","G","o","l","f">>, Semarang_Selatan>>,
      <<<<"J","o","m","b","l","a","n","g">>, Semarang_Selatan>>,
      <<<<"L","a","m","p","e","r">>, Semarang_Selatan>>,
      <<<<"K","a","r","a","n","g"," ","A","n","y","a","r">>, Semarang_Selatan>>,
      <<<<"K","a","r","a","n","g"," ","R","e","j","o">>, Semarang_Selatan>>,
      <<<<"K","a","r","a","n","g"," ","T","e","m","p","e","l">>, Semarang_Selatan>>,
      <<<<"K","a","r","a","n","g"," ","k","i","d","u","l">>, Semarang_Selatan>>,
      <<<<"S","i","r","a","n","d","a">>, Semarang_Selatan>>,
      <<<<"S","o","m","p","o","k">>, Semarang_Selatan>>,
      <<<<"M","u","g","o","s","a","r","i">>, Semarang_Selatan>>,
      <<<<"T","l","a","g","a"," ","B","o","d","a","s">>, Semarang_Selatan>>,
      <<<<"G","a","j","a","h","m","a","d","a">>, Semarang_Selatan>>,
      <<<<"S","u","l","t","a","n"," ","A","g","u","n","g">>, Semarang_Selatan>>,
      <<<<"P","e","t","e","r","o","n","g","a","n">>, Semarang_Selatan>>,
      <<<<"D","r"," ","C","i","p","t","o"," ","M","a","n","g","u","n","k","u","s","o","m","o">>, Semarang_Selatan>>,
      <<<<"A","t","m","o","d","i","r","o","n","o">>, Semarang_Selatan>>,
      <<<<"B","u","l","u","s","t","a","l","a","n">>, Semarang_Selatan>>,
      <<<<"P","a","n","d","a","n","s","a","r","i">>, Semarang_Selatan>>,
      <<<<"G","a","j","a","h","m","u","n","g","k","u","r">>, Semarang_Selatan>>,
      <<<<"G","u","n","u","n","g"," ","P","a","t","i">>, Semarang_Selatan>>,
      <<<<"B","a","r","u","s","a","r","i">>, Semarang_Selatan>>,
      <<<<"P","a","t","i"," ","W","e","t","a","n">>, Semarang_Selatan>>,
      <<<<"S","e","m","a","r","a","n","g"," ","T","e","n","g","a","h">>, Semarang_Tengah>>,
      <<<<"S","i","m","p","a","n","g"," ","L","i","m","a">>, Semarang_Tengah>>,
      <<<<"P","e","m","u","d","a">>, Semarang_Tengah>>,
      <<<<"S","e","k","a","y","u">>, Semarang_Tengah>>,
      <<<<"G","a","b","a","h","a","n">>, Semarang_Tengah>>,
      <<<<"K","r","a","n","g","g","a","n">>, Semarang_Tengah>>,
      <<<<"J","a","g","a","l","a","n">>, Semarang_Tengah>>,
      <<<<"M","i","r","o","t","o">>, Semarang_Tengah>>,
      <<<<"P","i","n","d","r","i","k","a","n">>, Semarang_Tengah>>,
      <<<<"P","e","k","u","n","d","e","n">>, Semarang_Tengah>>,
      <<<<"P","u","r","w","o","s","a","r","i">>, Semarang_Tengah>>,
      <<<<"P","e","n","d","i","r","i","k","a","n">>, Semarang_Tengah>>,
      <<<<"B","r","u","m","b","u","n","g","a","n">>, Semarang_Tengah>>,
      <<<<"M","a","t","a","r","a","m">>, Semarang_Tengah>>,
      <<<<"K","a","r","t","i","n","i">>, Semarang_Tengah>>,
      <<<<"B","u","g","a","n","g","a","n">>, Semarang_Tengah>>,
      <<<<"C","i","t","a","r","u","m">>, Semarang_Tengah>>,
      <<<<"I","n","d","r","a","p","r","a","s","t","a">>, Semarang_Tengah>>,
      <<<<"S","i","d","o","d","a","d","i"," ","T","i","m","u","r">>, Semarang_Tengah>>,
      <<<<"K","a","w","i">>, Semarang_Tengah>>,
      <<<<"H","a","l","m","a","h","e","r","a">>, Semarang_Tengah>>,
      <<<<"K","a","l","i","w","u","n","g","u">>, Semarang_Tengah>>,
      <<<<"K","r","a","k","a","t","a","u">>, Semarang_Tengah>>,
      <<<<"N","i","a","s">>, Semarang_Tengah>>,
      <<<<"S","e","m","e","r","u">>, Semarang_Tengah>>,
      <<<<"S","r","i"," ","R","e","j","e","k","i">>, Semarang_Tengah>>,
      <<<<"K","e","n","c","o","n","o","w","u","n","g","u">>, Semarang_Tengah>>,
      <<<<"D","e","m","p","e","l">>, Semarang_Tengah>>,
      <<<<"P","a","p","a","n","d","a","y","a","n">>, Semarang_Tengah>>,
      <<<<"p","e","k","u","n","d","e","n">>, Semarang_Tengah>>,
      <<<<"C","a","b","e","a","n">>, Semarang_Tengah>>,
      <<<<"G","e","d","u","n","g"," ","B","a","t","u">>, Semarang_Tengah>>,
      <<<<"G","r","e","e","n","w","o","o","d">>, Semarang_Tengah>>,
      <<<<"K","a","r","a","n","g"," ","T","u","r","i">>, Semarang_Tengah>>,
      <<<<"K","a","u","m","a","n">>, Semarang_Tengah>>,
      <<<<"P","u","r","w","o","d","i","n","a","t","a","n">>, Semarang_Tengah>>,
      <<<<"S","a","r","i","r","e","j","o">>, Semarang_Tengah>>,
      <<<<"p","a","p","a","n","d","a","y","a","n">>, Semarang_Tengah>>,
      <<<<"U","n","g","a","r","a","n">>, Semarang_Lainnya>>,
      <<<<"U","n","g","a","r","a","n"," ","B","a","r","a","t">>, Semarang_Lainnya>>,
      <<<<"U","n","g","a","r","a","n"," ","T","i","m","u","r">>, Semarang_Lainnya>>,
      <<<<"B","a","w","e","n">>, Semarang_Lainnya>>,
      <<<<"B","e","r","g","a","s">>, Semarang_Lainnya>>,
      <<<<"B","o","j","a">>, Semarang_Lainnya>>,
      <<<<"B","a","n","d","u","n","g","a","n">>, Semarang_Lainnya>>,
      <<<<"M","r","a","n","g","g","e","n">>, Semarang_Lainnya>>,
      <<<<"B","r","i","n","g","i","n">>, Semarang_Lainnya>>,
      <<<<"P","r","i","n","g","a","p","u","s">>, Semarang_Lainnya>>,
      <<<<"S","u","m","o","w","o","n","o">>, Semarang_Lainnya>>,
      <<<<"S","u","r","u","h">>, Semarang_Lainnya>>,
      <<<<"T","e","n","g","a","r","a","n">>, Semarang_Lainnya>>,
      <<<<"T","u","n","t","a","n","g">>, Semarang_Lainnya>>,
      <<<<"G","e","t","a","s","a","n">>, Semarang_Lainnya>>,
      <<<<"P","a","b","e","l","a","n">>, Semarang_Lainnya>>,
      <<<<"B","a","n","j","a","r","d","o","w","o">>, Semarang_Lainnya>>,
      <<<<"K","e","d","u","n","g"," ","P","a","n","e">>, Semarang_Lainnya>>,
      <<<<"T","e","n","g","g","e","r">>, Semarang_Lainnya>>,
      <<<<"M","a","n","g","u","n","s","a","r","i">>, Semarang_Lainnya>>
   >>

all_zones ==
    <<Semarang_Barat, Semarang_Timur, Semarang_Utara,
      Semarang_Selatan, Semarang_Tengah, Semarang_Lainnya>>

CommaSemarang == <<",", " ", "S", "e", "m", "a", "r", "a", "n", "g">>

\* the cleaning of map_lokasi_to_zona: strip, then drop every ", Semarang"
CleanLokasi(s) ==
    LET l0 == strip(s)
    IN  IF contains(l0, CommaSemarang)
        THEN strip(replace(l0, CommaSemarang, <<>>))
        ELSE l0

\* key.lower() of every table entry, in table order
zona_keys_lower ==
    SeqOf(Len(zona_mapping), LAMBDA i : lower(zona_mapping[i][1]))

\* mutant: the test in one direction only (key.lower() in lokasi.lower())
FuzzyMatch_KeyInLokasiOnly(i, lokasi_lower) ==
    contains(lokasi_lower, zona_keys_lower[i])

\* one test of the fuzzy loop, on entry i and lokasi.lower():
\* key.lower() in lokasi.lower() or lokasi.lower() in key.lower()
FuzzyMatch(i, lokasi_lower) ==
    contains(lokasi_lower, zona_keys_lower[i])
        \/ contains(zona_keys_lower[i], lokasi_lower)

\* the fuzzy loop "for key, zona in self.zona_mapping.items()" over entries
\* lo..hi in insertion order: the index of the first entry that matches, 0 if
\* none does (the range is halved to keep the evaluation shallow)
RECURSIVE FuzzyFirst(_, _, _)
FuzzyFirst(lo, hi, lokasi_lower) ==
    IF lo > hi THEN 0
    ELSE IF lo = hi
         THEN IF FuzzyMatch(lo, lokasi_lower) THEN lo ELSE 0
         ELSE LET mid == (lo + hi) \div 2
                  first == FuzzyFirst(lo, mid, lokasi_lower)
              IN  IF first # 0 THEN first
                  ELSE FuzzyFirst(mid + 1, hi, lokasi_lower)

\* the fuzzy matching and the final return
FuzzyZona(lokasi_lower) ==
    LET first == FuzzyFirst(1, Len(zona_mapping), lokasi_lower)
    IN  IF first # 0 THEN zona_mapping[first][2] ELSE Semarang_Lainnya

\* the direct mapping, then the fuzzy matching, of the cleaned text
ZonaOfClean(l) ==
    LET hit == {i \in 1..Len(zona_mapping) : zona_mapping[i][1] = l}
    IN  IF hit # {} THEN zona_mapping[CHOOSE i \in hit : TRUE][2]
        ELSE Apply(FuzzyZona, lower(l))

map_lokasi_to_zona(lokasi) ==
    IF IsNone(lokasi) THEN Semarang_Lainnya
    ELSE Apply(ZonaOfClean, CleanLokasi(lokasi.s))

\* ------------------------------------------- PropertyInput: validators

\* the value of a run of decimal digits
RECURSIVE DigitsValue(_)
DigitsValue(ds) ==
    IF ds = <<>> THEN 0
    ELSE 10 * DigitsValue(SubSeq(ds, 1, Len(ds) - 1))
         + (CHOOSE d \in 0..9 : DigitChars[d + 1] = ds[Len(ds)])

\* re.findall(r'\d+', v)[0]: the first maximal run of digits, <<>> if none
FirstDigitRun(s) ==
    LET at == {k \in 1..Len(s) : IsDigit(s[k])}
    IN  IF at = {} THEN <<>>
        ELSE LET a == SetMin(at)
                 stop == {k \in a..Len(s) : ~IsDigit(s[k])}
                 b == IF stop = {} THEN Len(s) ELSE SetMin(stop) - 1
             IN  SubSeq(s, a, b)

\* validator of kamar_tidur, kamar_mandi, carport, jumlah_lantai
validate_integers(v) ==
    IF IsNone(v) THEN None
    ELSE IF IsStr(v)
         THEN LET numbers == FirstDigitRun(v.s)
              IN  IF numbers # <<>> THEN Num(DigitsValue(numbers)) ELSE None
         ELSE v

\* re.sub(r'[^\d.,]', '', v).replace(',', '.')
CleanUnits(s) ==
    LET kept == SelectSeq(s, LAMBDA c : IsDigit(c) \/ c = "." \/ c = ",")
    IN  SeqOf(Len(kept), LAMBDA k : IF kept[k] = "," THEN "." ELSE kept[k])

\* float(cleaned) of a text of digits and periods: ValueError (None) unless it
\* has a digit and at most one period.  Numbers are whole in this model: the
\* digits before the period are the value.
FloatOfClean(cleaned) ==
    LET dots == {k \in 1..Len(cleaned) : cleaned[k] = "."}
    IN  IF Cardinality(dots) > 1 \/ Cardinality(dots) = Len(cleaned)
        THEN None
        ELSE IF dots = {} THEN Num(DigitsValue(cleaned))
             ELSE Num(DigitsValue(SubSeq(cleaned, 1, SetMin(dots) - 1)))

\* validator of luas_tanah, luas_bangunan, daya_listrik
validate_numeric_with_units(v) ==
    IF IsNone(v) THEN None
    ELSE IF IsStr(v) THEN FloatOfClean(CleanUnits(v.s))
         ELSE v

\* ------------------------------------------------------- DataProcessor

Bagus == <<"B","a","g","u","s">>

Renovasi == <<"R","e","n","o","v","a","s","i">>

Tidak_Berperabot == <<"T","i","d","a","k"," ","B","e","r","p","e","r","a","b","o","t">>

Semi_Furnished == <<"S","e","m","i"," ","F","u","r","n","i","s","h","e","d">>

Furnished == <<"F","u","r","n","i","s","h","e","d">>

Dasar_450VA == <<"D","a","s","a","r","_","4","5","0","V","A">>

Standar_900VA == <<"S","t","a","n","d","a","r","_","9","0","0","V","A">>

Menengah_1300VA == <<"M","e","n","e","n","g","a","h","_","1","3","0","0","V","A">>

Tinggi_2200VA == <<"T","i","n","g","g","i","_","2","2","0","0","V","A">>

Premium_3500VA == <<"P","r","e","m","i","u","m","_","3","5","0","0","V","A">>

Luxury_5500VA == <<"L","u","x","u","r","y","_","5","5","0","0","V","A">>

Ultra_5500VA_Plus == <<"U","l","t","r","a","_","5","5","0","0","V","A","_","P","l","u","s">>

default_values ==
    [kamar_tidur |-> 3, kamar_mandi |-> 2, luas_tanah |-> 150,
     luas_bangunan |-> 120, carport |-> 1, daya_listrik |-> 1300,
     jumlah_lantai |-> 1, kondisi_properti |-> Bagus,
     kondisi_perabotan |-> Tidak_Berperabot]

clean_numeric_string(value) ==
    IF IsNone(value) THEN None
    ELSE IF IsInt(value) THEN value
         ELSE FloatOfClean(CleanUnits(value.s))

all_daya ==
    <<Dasar_450VA, Standar_900VA, Menengah_1300VA, Tinggi_2200VA,
      Premium_3500VA, Luxury_5500VA, Ultra_5500VA_Plus>>

\* mutant: exclusive upper boundaries (< for <=)
classify_daya_Exclusive(daya) ==
    IF IsNone(daya) THEN Menengah_1300VA
    ELSE IF daya.v < 450 THEN Dasar_450VA
    ELSE IF daya.v < 900 THEN Standar_900VA
    ELSE IF daya.v < 1300 THEN Menengah_1300VA
    ELSE IF daya.v < 2200 THEN Tinggi_2200VA
    ELSE IF daya.v < 3500 THEN Premium_3500VA
    ELSE IF daya.v < 5500 THEN Luxury_5500VA
    ELSE Ultra_5500VA_Plus

\* mutant: the thresholds of the estimate are exclusive
get_daya_default_Exclusive(luas_bangunan, kamar_tidur) ==
    IF luas_bangunan > 200 \/ kamar_tidur > 4 THEN 2200
    ELSE IF luas_bangunan > 120 \/ kamar_tidur > 3 THEN 1300
    ELSE IF luas_bangunan > 70 THEN 900
    ELSE 450

classify_daya(daya) ==
    IF IsNone(daya) THEN Menengah_1300VA
    ELSE IF daya.v <= 450 THEN Dasar_450VA
    ELSE IF daya.v <= 900 THEN Standar_900VA
    ELSE IF daya.v <= 1300 THEN Menengah_1300VA
    ELSE IF daya.v <= 2200 THEN Tinggi_2200VA
    ELSE IF daya.v <= 3500 THEN Premium_3500VA
    ELSE IF daya.v <= 5500 THEN Luxury_5500VA
    ELSE Ultra_5500VA_Plus

get_daya_default_by_price_category(luas_bangunan, kamar_tidur) ==
    IF luas_bangunan >= 200 \/ kamar_tidur >= 4 THEN 2200
    ELSE IF luas_bangunan >= 120 \/ kamar_tidur >= 3 THEN 1300
    ELSE IF luas_bangunan >= 70 THEN 900
    ELSE 450

get_lantai_default_by_size(luas_bangunan) ==
    IF luas_bangunan >= 150 THEN 2 ELSE 1

kondisi_mapping_properti ==
   <<
      <<<<"B","a","g","u","s">>, Bagus>>,
      <<<<"B","a","i","k">>, Bagus>>,
      <<<<"G","o","o","d">>, Bagus>>,
      <<<<"S","a","n","g","a","t"," ","B","a","g","u","s">>, Bagus>>,
      <<<<"S","i","a","p"," ","H","u","n","i">>, Bagus>>,
      <<<<"T","e","r","a","w","a","t">>, Bagus>>,
      <<<<"R","e","n","o","v","a","s","i">>, Renovasi>>,
      <<<<"P","e","r","l","u"," ","R","e","n","o","v","a","s","i">>, Renovasi>>,
      <<<<"R","u","s","a","k">>, Renovasi>>,
      <<<<"B","u","t","u","h"," ","R","e","n","o","v","a","s","i">>, Renovasi>>
   >>

kondisi_mapping_perabotan ==
   <<
      <<<<"T","i","d","a","k"," ","B","e","r","p","e","r","a","b","o","t">>, Tidak_Berperabot>>,
      <<<<"U","n","f","u","r","n","i","s","h","e","d">>, Tidak_Berperabot>>,
      <<<<"K","o","s","o","n","g">>, Tidak_Berperabot>>,
      <<<<"S","e","m","i"," ","F","u","r","n","i","s","h","e","d">>, Semi_Furnished>>,
      <<<<"S","e","m","i"," ","B","e","r","p","e","r","a","b","o","t">>, Semi_Furnished>>,
      <<<<"S","e","b","a","g","i","a","n"," ","B","e","r","p","e","r","a","b","o","t">>, Semi_Furnished>>,
      <<<<"F","u","r","n","i","s","h","e","d">>, Furnished>>,
      <<<<"B","e","r","p","e","r","a","b","o","t">>, Furnished>>,
      <<<<"F","u","l","l"," ","F","u","r","n","i","s","h","e","d">>, Furnished>>,
      <<<<"L","e","n","g","k","a","p">>, Furnished>>
   >>

all_kondisi_properti == <<Bagus, Renovasi>>

all_kondisi_perabotan == <<Tidak_Berperabot, Semi_Furnished, Furnished>>

kondisi_mapping(kondisi_type) ==
    IF kondisi_type = "properti" THEN kondisi_mapping_properti
    ELSE kondisi_mapping_perabotan

\* mutant: with no match the text itself is returned, not the first value
RECURSIVE KondisiFrom_ReturnsText(_, _, _)
KondisiFrom_ReturnsText(i, kondisi_lower, table) ==
    IF i > Len(table) THEN kondisi_lower
    ELSE IF Apply(LAMBDA key_lower :
                    contains(kondisi_lower, key_lower)
                        \/ contains(key_lower, kondisi_lower),
                  lower(table[i][1]))
         THEN table[i][2]
         ELSE KondisiFrom_ReturnsText(i + 1, kondisi_lower, table)

\* mutant: an entry matches only when its key occurs in the text
RECURSIVE KondisiFrom_KeyInTextOnly(_, _, _)
KondisiFrom_KeyInTextOnly(i, kondisi_lower, table) ==
    IF i > Len(table) THEN table[1][2]
    ELSE IF contains(kondisi_lower, lower(table[i][1]))
         THEN table[i][2]
         ELSE KondisiFrom_KeyInTextOnly(i + 1, kondisi_lower, table)

\* the loop "for key, value in kondisi_mapping.items()" from entry i on, and
\* after it the default: the value of the table's first key
RECURSIVE KondisiFrom(_, _, _)
KondisiFrom(i, kondisi_lower, table) ==
    IF i > Len(table) THEN table[1][2]
    ELSE IF Apply(LAMBDA key_lower :
                    contains(kondisi_lower, key_lower)
                        \/ contains(key_lower, kondisi_lower),
                  lower(table[i][1]))
         THEN table[i][2]
         ELSE KondisiFrom(i + 1, kondisi_lower, table)

\* the matching of the trimmed, title-cased text
KondisiOf(kondisi, kondisi_type) ==
    Apply(LAMBDA kondisi_lower :
              KondisiFrom(1, kondisi_lower, kondisi_mapping(kondisi_type)),
          lower(kondisi))

standardize_kondisi(kondisi, kondisi_type) ==
    IF IsNone(kondisi)
    THEN IF kondisi_type = "properti" THEN Bagus ELSE Tidak_Berperabot
    ELSE KondisiOf(title(strip(kondisi.s)), kondisi_type)

\* ------------------------------------------------- binary64 arithmetic

\* A natural number of any size is the sequence of its digits in base 4096,
\* lowest first, without a leading zero digit; <<>> is 0.
BigTrim(ds) ==
    LET nz == {i \in 1..Len(ds) : ds[i] # 0}
    IN  IF nz = {} THEN <<>> ELSE SubSeq(ds, 1, SetMax(nz))

RECURSIVE BigCarry(_, _)
BigCarry(cs, carry) ==
    IF cs = <<>>
    THEN IF carry = 0 THEN <<>>
         ELSE <<carry % 4096>> \o BigCarry(<<>>, carry \div 4096)
    ELSE <<(Head(cs) + carry) % 4096>>
            \o BigCarry(Tail(cs), (Head(cs) + carry) \div 4096)

\* the number whose digit i counts cs[i], each below 2^30
Big(cs) == BigTrim(BigCarry(cs, 0))

Digit(a, i) == IF i <= Len(a) THEN a[i] ELSE 0

BigOfInt(n) == Big(<<n>>)

BigAdd(a, b) ==
    Big(SeqOf(IF Len(a) > Len(b) THEN Len(a) ELSE Len(b),
              LAMBDA i : Digit(a, i) + Digit(b, i)))

BigMul(a, b) ==
    IF a = <<>> \/ b = <<>> THEN <<>>
    ELSE Big(SeqOf(Len(a) + Len(b) - 1,
                   LAMBDA k : SeqSum(SeqOf(k,
                       LAMBDA i : Digit(a, i) * Digit(b, k + 1 - i)))))

BigLess(a, b) ==
    \/ Len(a) < Len(b)
    \/ /\ Len(a) = Len(b)
       /\ \E i \in 1..Len(a) :
             /\ a[i] < b[i]
             /\ \A j \in (i + 1)..Len(a) : a[j] = b[j]

\* a - b, for a >= b
BigSub(a, b) ==
    BigTrim(SubSeq(BigCarry(SeqOf(Len(a),
                        LAMBDA i : a[i] + 4095 - Digit(b, i)), 1),
                   1, Len(a)))

\* a * 2^k
BigShiftLeft(a, k) ==
    Big(SeqOf(k \div 12, LAMBDA i : 0)
          \o SeqOf(Len(a), LAMBDA i : a[i] * 2^(k % 12)))

\* a \div 2^k
BigShiftRight(a, k) ==
    IF k \div 12 >= Len(a) THEN <<>>
    ELSE Apply(LAMBDA rest :
                  BigTrim(SeqOf(Len(rest),
                      LAMBDA i : (rest[i] \div 2^(k % 12))
                                   + (Digit(rest, i + 1) % 2^(k % 12))
                                        * 2^(12 - (k % 12)))),
               SubSeq(a, k \div 12 + 1, Len(a)))

BigBit(a, k) == (Digit(a, k \div 12 + 1) \div 2^(k % 12)) % 2

\* the lowest k binary digits of a are zeros
BigLowZero(a, k) == BigShiftLeft(BigShiftRight(a, k), k) = a

\* the count of binary digits of a
BigBits(a) ==
    IF a = <<>> THEN 0
    ELSE 12 * (Len(a) - 1)
            + (CHOOSE n \in 1..12 :
                   2^(n - 1) <= a[Len(a)] /\ a[Len(a)] < 2^n)

\* one turn of the long division in base 2: the next binary digit of the
\* dividend is brought down
DivStep(h, bit, d) ==
    Apply(LAMBDA r :
             IF BigLess(r, d)
             THEN [q |-> BigAdd(h.q, h.q), r |-> r]
             ELSE [q |-> BigAdd(BigAdd(h.q, h.q), <<1>>),
                   r |-> BigSub(r, d)],
          BigAdd(BigAdd(h.r, h.r), BigOfInt(bit)))

\* the turns for the j lowest binary digits of a digit, highest first
RECURSIVE DivDigit(_, _, _, _)
DivDigit(h, digit, j, d) ==
    IF j = 0 THEN h
    ELSE Apply(LAMBDA g : DivDigit(g, digit, j - 1, d),
               DivStep(h, (digit \div 2^(j - 1)) % 2, d))

\* quotient and remainder of n by d, d > 0
RECURSIVE BigDivMod(_, _)
BigDivMod(n, d) ==
    IF n = <<>> THEN [q |-> <<>>, r |-> <<>>]
    ELSE Apply(LAMBDA h : DivDigit(h, Head(n), 12, d),
               BigDivMod(Tail(n), d))

\* A float is [neg, m, e], the number (-1)^neg * m * 2^e with m of 53 binary
\* digits, or zero, m = <<>>.  Exponents are taken to stay in range.
FloatZero == [neg |-> FALSE, m |-> <<>>, e |-> 0]

IsFloat(x) == "m" \in DOMAIN x

\* n * 2^e rounded to the nearest float, ties to even
RoundToFloat(neg, n, e) ==
    IF n = <<>> THEN FloatZero
    ELSE IF BigBits(n) <= 53
    THEN [neg |-> neg, m |-> BigShiftLeft(n, 53 - BigBits(n)),
          e |-> e - (53 - BigBits(n))]
    ELSE Apply(LAMBDA s :
            Apply(LAMBDA r :
                     IF BigBits(r) > 53
                     THEN [neg |-> neg, m |-> BigShiftRight(r, 1),
                           e |-> e + s + 1]
                     ELSE [neg |-> neg, m |-> r, e |-> e + s],
                  IF BigBit(n, s - 1) = 1
                       /\ (~BigLowZero(n, s - 1) \/ BigBit(n, s) = 1)
                  THEN BigAdd(BigShiftRight(n, s), <<1>>)
                  ELSE BigShiftRight(n, s)),
            BigBits(n) - 53)

FloatOfInt(n) ==
    IF n < 0 THEN RoundToFloat(TRUE, BigOfInt(0 - n), 0)
    ELSE RoundToFloat(FALSE, BigOfInt(n), 0)

FloatMul(a, b) == RoundToFloat(a.neg # b.neg, BigMul(a.m, b.m), a.e + b.e)

\* the magnitudes of a and b over the lower of the two exponents
Aligned(a, b) ==
    Apply(LAMBDA lo :
             [e |-> lo, a |-> BigShiftLeft(a.m, a.e - lo),
              b |-> BigShiftLeft(b.m, b.e - lo)],
          IF a.e < b.e THEN a.e ELSE b.e)

FloatAdd(a, b) ==
    IF a.m = <<>> THEN b
    ELSE IF b.m = <<>> THEN a
    ELSE Apply(LAMBDA al :
                  IF a.neg = b.neg
                  THEN RoundToFloat(a.neg, BigAdd(al.a, al.b), al.e)
                  ELSE IF BigLess(al.a, al.b)
                  THEN RoundToFloat(b.neg, BigSub(al.b, al.a), al.e)
                  ELSE RoundToFloat(a.neg, BigSub(al.a, al.b), al.e),
               Aligned(a, b))

\* a / b for b not zero: 57 or 58 binary digits of the quotient, and one
\* more that says whether anything is left
FloatDiv(a, b) ==
    IF a.m = <<>> THEN FloatZero
    ELSE Apply(LAMBDA h :
                  RoundToFloat(a.neg # b.neg,
                               BigAdd(BigAdd(h.q, h.q),
                                      IF h.r = <<>> THEN <<>> ELSE <<1>>),
                               a.e - b.e - 57),
               BigDivMod(BigShiftLeft(a.m, 56), b.m))

FloatLess(a, b) ==
    IF a.m = <<>> THEN b.m # <<>> /\ ~b.neg
    ELSE IF b.m = <<>> THEN a.neg
    ELSE IF a.neg # b.neg THEN a.neg
    ELSE IF a.neg
    THEN b.e < a.e \/ (b.e = a.e /\ BigLess(b.m, a.m))
    ELSE a.e < b.e \/ (a.e = b.e /\ BigLess(a.m, b.m))

\* ---------------------------------------------- SmartHomePricePrediction

\* A price is a quotient [num, den] of integers, in millions of Rupiah, or a
\* float, in Rupiah.  Quotients are kept where the binary64 computation is
\* exact up to one final division, whose rounding is monotonic and leaves
\* integers alone, so that it changes no comparison with an integer.  Every
\* comparison with nan (0 / 0) is false.
FloatOfMillions(k) == FloatMul(FloatOfInt(k), FloatOfInt(1000000))

PriceLess(price, k) ==
    IF IsFloat(price) THEN FloatLess(price, FloatOfMillions(k))
    ELSE price.num < k * price.den

classify_harga(price) ==
    IF PriceLess(price, 500) THEN "Ekonomis"
    ELSE IF PriceLess(price, 1000) THEN "Menengah Bawah"
    ELSE IF PriceLess(price, 2000) THEN "Menengah"
    ELSE IF PriceLess(price, 3500) THEN "Menengah Atas"
    ELSE IF PriceLess(price, 6000) THEN "Premium"
    ELSE "Luxury"

\* the columns of preprocess_input's frame

Kamar_Tidur == <<"K","a","m","a","r"," ","T","i","d","u","r">>

Kamar_Mandi == <<"K","a","m","a","r"," ","M","a","n","d","i">>

Luas_Tanah == <<"L","u","a","s"," ","T","a","n","a","h">>

Luas_Bangunan == <<"L","u","a","s"," ","B","a","n","g","u","n","a","n">>

Carport == <<"C","a","r","p","o","r","t">>

Daya_Listrik == <<"D","a","y","a"," ","L","i","s","t","r","i","k">>

Jumlah_Lantai == <<"J","u","m","l","a","h"," ","L","a","n","t","a","i">>

Rasio_Bangunan_Tanah == <<"R","a","s","i","o","_","B","a","n","g","u","n","a","n","_","T","a","n","a","h">>

Total_Luas == <<"T","o","t","a","l","_","L","u","a","s">>

Luas_per_Kamar == <<"L","u","a","s","_","p","e","r","_","K","a","m","a","r">>

Rasio_Kamar_Mandi == <<"R","a","s","i","o","_","K","a","m","a","r","_","M","a","n","d","i">>

Daya_per_Luas == <<"D","a","y","a","_","p","e","r","_","L","u","a","s">>

Price_per_sqm == <<"P","r","i","c","e","_","p","e","r","_","s","q","m">>

Kamar_x_Daya == <<"K","a","m","a","r","_","x","_","D","a","y","a">>

Luas_Tanah_log == <<"L","u","a","s"," ","T","a","n","a","h","_","l","o","g">>

Luas_Bangunan_log == <<"L","u","a","s"," ","B","a","n","g","u","n","a","n","_","l","o","g">>

Total_Rooms == <<"T","o","t","a","l","_","R","o","o","m","s">>

Luxury_Score == <<"L","u","x","u","r","y","_","S","c","o","r","e">>

Efficiency_Score == <<"E","f","f","i","c","i","e","n","c","y","_","S","c","o","r","e">>

Prefix_Zona == <<"Z","o","n","a","_">>

Prefix_Daya == <<"D","a","y","a","_">>

Prefix_Kondisi_Properti == <<"K","o","n","d","i","s","i","_","P","r","o","p","e","r","t","i","_">>

Prefix_Kondisi_Perabotan == <<"K","o","n","d","i","s","i","_","P","e","r","a","b","o","t","a","n","_">>

text_log == <<"l","o","g">>

text_ratio == <<"r","a","t","i","o">>

text_per == <<"p","e","r">>

text_score == <<"s","c","o","r","e">>

numeric_fields ==
    <<Kamar_Tidur, Kamar_Mandi, Luas_Tanah, Luas_Bangunan, Carport,
      Daya_Listrik, Jumlah_Lantai>>

\* PropertyInput(**payload): the pre-validators of the seven numeric fields
PropertyInput(payload) ==
    [lokasi |-> payload.lokasi,
     kamar_tidur |-> validate_integers(payload.kamar_tidur),
     kamar_mandi |-> validate_integers(payload.kamar_mandi),
     luas_tanah |-> validate_numeric_with_units(payload.luas_tanah),
     luas_bangunan |-> validate_numeric_with_units(payload.luas_bangunan),
     carport |-> validate_integers(payload.carport),
     daya_listrik |-> validate_numeric_with_units(payload.daya_listrik),
     jumlah_lantai |-> validate_integers(payload.jumlah_lantai),
     kondisi_properti |-> payload.kondisi_properti,
     kondisi_perabotan |-> payload.kondisi_perabotan]

\* steps 1 and 2 of preprocess_input: raw_data with its numeric fields
\* cleaned (float(value) of a number is the number)
CleanedRawData(input_data) ==
    [Kamar_Tidur |-> input_data.kamar_tidur,
     Kamar_Mandi |-> input_data.kamar_mandi,
     Luas_Tanah |-> clean_numeric_string(input_data.luas_tanah),
     Luas_Bangunan |-> clean_numeric_string(input_data.luas_bangunan),
     Carport |-> input_data.carport,
     Daya_Listrik |-> clean_numeric_string(input_data.daya_listrik),
     Jumlah_Lantai |-> input_data.jumlah_lantai]

\* mutant: only None counts as missing (no <= 0 test)
MissingOrNotPositive_NoneOnly(x) == IsNone(x)

MissingOrNotPositive(x) == IsNone(x) \/ x.v <= 0

\* step 3: the imputation rules in the order of the code, each reading the
\* values the earlier ones left; missing_fields in the order of the appends
ImputedRawData(input_data) ==
    LET raw == CleanedRawData(input_data)
        kt_miss == MissingOrNotPositive(raw.Kamar_Tidur)
        kt == IF kt_miss THEN default_values.kamar_tidur
              ELSE raw.Kamar_Tidur.v
        km_miss == MissingOrNotPositive(raw.Kamar_Mandi)
        km == IF km_miss THEN default_values.kamar_mandi
              ELSE raw.Kamar_Mandi.v
        lt_miss == MissingOrNotPositive(raw.Luas_Tanah)
        lt == IF lt_miss THEN default_values.luas_tanah
              ELSE raw.Luas_Tanah.v
        lb_miss == MissingOrNotPositive(raw.Luas_Bangunan)
        lb == IF lb_miss THEN default_values.luas_bangunan
              ELSE raw.Luas_Bangunan.v
        cp_miss == IsNone(raw.Carport)
        cp == IF cp_miss THEN default_values.carport ELSE raw.Carport.v
        dl_miss == MissingOrNotPositive(raw.Daya_Listrik)
        dl == IF dl_miss THEN get_daya_default_by_price_category(lb, kt)
              ELSE raw.Daya_Listrik.v
        jl_miss == MissingOrNotPositive(raw.Jumlah_Lantai)
        jl == IF jl_miss THEN get_lantai_default_by_size(lb)
              ELSE raw.Jumlah_Lantai.v
        miss == <<kt_miss, km_miss, lt_miss, lb_miss, cp_miss, dl_miss,
                  jl_miss>>
    IN  [Kamar_Tidur |-> kt, Kamar_Mandi |-> km, Luas_Tanah |-> lt,
         Luas_Bangunan |-> lb, Carport |-> cp, Daya_Listrik |-> dl,
         Jumlah_Lantai |-> jl,
         Kondisi_Properti |->
            standardize_kondisi(input_data.kondisi_properti, "properti"),
         Kondisi_Perabotan |->
            standardize_kondisi(input_data.kondisi_perabotan, "perabotan"),
         missing_fields |->
            SelectSeq(numeric_fields,
                LAMBDA f : \E k \in 1..Len(numeric_fields) :
                               numeric_fields[k] = f /\ miss[k])]

Cap(x, limit) == IF x > limit THEN limit ELSE x

\* step 4: the validation ranges
ClampedRawData(r) ==
    [r EXCEPT !.Kamar_Tidur = Cap(@, 10), !.Kamar_Mandi = Cap(@, 10),
              !.Luas_Tanah = Cap(@, 2000), !.Luas_Bangunan = Cap(@, 1000),
              !.Carport = Cap(@, 5), !.Jumlah_Lantai = Cap(@, 4)]

OneHot(prefix, labels, label) ==
    [c \in {prefix \o labels[k] : k \in 1..Len(labels)} |->
        IF c = prefix \o label THEN 1 ELSE 0]

\* steps 5 to 8: the frame with the numeric columns, the four one-hot groups
\* and the derived features.  A quotient a / b is [num |-> a, den |-> b];
\* log1p(x) is [log1p |-> x]; the product of Luxury_Score stays a list of
\* factors.
Frame(r, zona) ==
    (Kamar_Tidur :> r.Kamar_Tidur) @@ (Kamar_Mandi :> r.Kamar_Mandi)
    @@ (Luas_Tanah :> r.Luas_Tanah) @@ (Luas_Bangunan :> r.Luas_Bangunan)
    @@ (Carport :> r.Carport) @@ (Daya_Listrik :> r.Daya_Listrik)
    @@ (Jumlah_Lantai :> r.Jumlah_Lantai)
    @@ OneHot(Prefix_Zona, all_zones, zona)
    @@ OneHot(Prefix_Daya, all_daya, classify_daya(Num(r.Daya_Listrik)))
    @@ OneHot(Prefix_Kondisi_Properti, all_kondisi_properti,
              r.Kondisi_Properti)
    @@ OneHot(Prefix_Kondisi_Perabotan, all_kondisi_perabotan,
              r.Kondisi_Perabotan)
    @@ (Rasio_Bangunan_Tanah :>
            [num |-> r.Luas_Bangunan, den |-> r.Luas_Tanah])
    @@ (Total_Luas :> r.Luas_Bangunan + r.Luas_Tanah)
    @@ (Luas_per_Kamar :> [num |-> r.Luas_Bangunan, den |-> r.Kamar_Tidur])
    @@ (Rasio_Kamar_Mandi :>
            [num |-> r.Kamar_Mandi, den |-> r.Kamar_Tidur])
    @@ (Daya_per_Luas :> [num |-> r.Daya_Listrik, den |-> r.Luas_Bangunan])
    @@ (Price_per_sqm :> 0)
    @@ (Kamar_x_Daya :> r.Kamar_Tidur * r.Daya_Listrik)
    @@ (Luas_Tanah_log :> [log1p |-> r.Luas_Tanah])
    @@ (Luas_Bangunan_log :> [log1p |-> r.Luas_Bangunan])
    @@ (Total_Rooms :> r.Kamar_Tidur + r.Kamar_Mandi)
    @@ (Luxury_Score :>
            [factors |-> <<r.Daya_Listrik, r.Luas_Bangunan, r.Jumlah_Lantai>>,
             den |-> 1000])
    @@ (Efficiency_Score :>
            [num |-> r.Luas_Bangunan, den |-> r.Luas_Tanah])

\* mutant: the "ratio" / "per" rule is tried before the "log" rule
MissingFeatureDefault_RatioFirst(feature, frame) ==
    IF contains(lower(feature), text_ratio)
       \/ contains(lower(feature), text_per) THEN 1
    ELSE IF contains(lower(feature), text_log) THEN 0
    ELSE IF contains(lower(feature), text_score)
         THEN [num |-> frame[Luas_Bangunan], den |-> 10]
    ELSE 0

\* the default of a selected feature the frame lacks, by its name
MissingFeatureDefault(feature, frame) ==
    IF contains(lower(feature), text_log) THEN 0
    ELSE IF contains(lower(feature), text_ratio)
            \/ contains(lower(feature), text_per) THEN 1
    ELSE IF contains(lower(feature), text_score)
         THEN [num |-> frame[Luas_Bangunan], den |-> 10]
    ELSE 0

\* step 9: df[self.selected_features]; on KeyError the missing features are
\* added to the frame with their defaults and the selection is made again
FrameWithSelected(frame, selected_features) ==
    LET missing_features ==
            {selected_features[k] : k \in 1..Len(selected_features)}
                \ DOMAIN frame
    IN  frame @@ [f \in missing_features |->
                      MissingFeatureDefault(f, frame)]

\* step 10: self.scaler.transform, an opaque fitted transform that keeps
\* length and order: the scaled value of x is [scaled |-> x]
ScalerTransform(df_selected) ==
    SeqOf(Len(df_selected), LAMBDA k :
        [name |-> df_selected[k].name,
         value |-> [scaled |-> df_selected[k].value]])

RawValue(r, field) ==
    CASE field = Kamar_Tidur -> r.Kamar_Tidur
      [] field = Kamar_Mandi -> r.Kamar_Mandi
      [] field = Luas_Tanah -> r.Luas_Tanah
      [] field = Luas_Bangunan -> r.Luas_Bangunan
      [] field = Carport -> r.Carport
      [] field = Daya_Listrik -> r.Daya_Listrik
      [] field = Jumlah_Lantai -> r.Jumlah_Lantai

\* what preprocess_input returns, from the imputed record, the zone and the
\* frame: (df_scaled, preprocessing_info); frame is the local frame df as it
\* stands at the selection; raised tells that the scaler raised
PreprocessResult(self, imputed, zona, frame) ==
    [raised |-> self.scaler.raises,
     raw_data |-> ClampedRawData(imputed),
     frame |-> frame,
     df_scaled |->
        ScalerTransform(
            SeqOf(Len(self.selected_features), LAMBDA k :
                [name |-> self.selected_features[k],
                 value |-> frame[self.selected_features[k]]])),
     preprocessing_info |->
        [missing_fields |-> imputed.missing_fields,
         imputed_values |->
            [f \in {imputed.missing_fields[k] :
                        k \in 1..Len(imputed.missing_fields)} |->
                RawValue(imputed, f)],
         zona_mapped |-> zona,
         features_shape |-> <<1, Len(self.selected_features)>>]]

\* preprocess_input(self, input_data); each intermediate value is computed
\* once, as the code computes it
preprocess_input(self, input_data) ==
    CHOOSE out \in
        {PreprocessResult(self, imputed, zona, frame) :
            <<imputed, zona, frame>> \in
                {<<i, z, FrameWithSelected(Frame(ClampedRawData(i), z),
                                           self.selected_features)>> :
                    i \in {ImputedRawData(input_data)},
                    z \in {map_lokasi_to_zona(input_data.lokasi)}}} : TRUE

\* ------------------------------------------------------ the model bundle

\* A regressor of the bundle is opaque: predict(X)[0] is its fitted value,
\* base (millions of Rupiah), unless X carries the column raises_on with the
\* scaled value of 1, on which predict raises.  NoColumn: it never raises.
NoColumn == <<>>

Model(base, raises_on) == [base |-> base, raises_on |-> raises_on]

RequiredKeys ==
    {"models", "ensemble_model", "scaler", "selected_features",
     "feature_importance", "evaluation_results"}

\* the unpickled dictionary: keys are the keys it has
Components(keys, models, ensemble_model, scaler_raises, selected_features, model_weights) ==
    [keys |-> keys, models |-> models, ensemble_model |-> ensemble_model,
     scaler |-> [raises |-> scaler_raises],
     selected_features |-> selected_features,
     model_weights |-> model_weights]

\* SmartHomePricePrediction.__init__: KeyError unless the required keys are
\* there; model_weights defaults to []
InitRaises(components) == ~(RequiredKeys \subseteq components.keys)

\* DataProcessor(): the instance with the two tables its constructor builds;
\* its methods read them and no statement assigns to them
DataProcessor ==
    [zona_mapping |-> zona_mapping, default_values |-> default_values]

SmartHomePricePrediction(components) ==
    [models |-> components.models,
     ensemble_model |-> components.ensemble_model,
     scaler |-> components.scaler,
     selected_features |-> components.selected_features,
     model_weights |->
        IF "model_weights" \in components.keys
        THEN components.model_weights ELSE <<>>,
     data_processor |-> DataProcessor]

\* ------------------------------------------------------------- predict

\* model.predict(X) raises
ModelRaises(model, X) ==
    /\ model.raises_on # NoColumn
    /\ \E k \in 1..Len(X) :
          X[k].name = model.raises_on /\ X[k].value = [scaled |-> 1]

\* A weight is a Python number: the int n, Whole(n), or a float.
Whole(n) == [num |-> n, den |-> 1]

AsFloat(w) == IF IsFloat(w) THEN w ELSE FloatOfInt(w.num)

FloatWeights(weights) == \E k \in 1..Len(weights) : IsFloat(weights[k])

\* the sum of floats, added one after the other
RECURSIVE FloatSum(_)
FloatSum(xs) ==
    IF xs = <<>> THEN FloatZero
    ELSE Apply(LAMBDA front : FloatAdd(front, xs[Len(xs)]),
               FloatSum(SubSeq(xs, 1, Len(xs) - 1)))

\* wgt.sum(), of ints or as float64
WeightSum(weights) ==
    IF FloatWeights(weights)
    THEN FloatSum(SeqOf(Len(weights), LAMBDA k : AsFloat(weights[k])))
    ELSE Whole(SeqSum(SeqOf(Len(weights), LAMBDA k : weights[k].num)))

\* np.average(predictions, weights=weights) raises: the shapes differ
\* (TypeError) or the weights sum to zero (ZeroDivisionError)
AverageRaises(predictions, weights) ==
    \/ Len(weights) # Len(predictions)
    \/ WeightSum(weights) \in {FloatZero, Whole(0)}

\* np.average(predictions, weights=weights), which does not raise:
\* np.multiply(a, wgt).sum() / wgt.sum(), in float64 for float weights
np_average(predictions, weights) ==
    IF FloatWeights(weights)
    THEN FloatDiv(FloatSum(SeqOf(Len(predictions),
                      LAMBDA k : FloatMul(FloatOfMillions(predictions[k]),
                                          AsFloat(weights[k])))),
                  WeightSum(weights))
    ELSE [num |-> SeqSum(SeqOf(Len(predictions),
                            LAMBDA k : predictions[k] * weights[k].num)),
          den |-> WeightSum(weights).num]

\* np.mean(predictions); of no prediction it is nan, the quotient 0 / 0
np_mean(predictions) ==
    [num |-> SeqSum(predictions), den |-> Len(predictions)]

\* np.std(predictions) if len(predictions) > 1 else 0: the population
\* standard deviation, kept as the variance it is the square root of
Uncertainty(predictions) ==
    LET n == Len(predictions)
        squares == SeqSum(SeqOf(n, LAMBDA k : predictions[k] * predictions[k]))
        total == SeqSum(predictions)
    IN  IF n > 1
        THEN [variance |-> [num |-> n * squares - total * total,
                            den |-> n * n]]
        ELSE [variance |-> [num |-> 0, den |-> 1]]

\* max(final_pred, 0): 0 when 0 > final_pred, else final_pred (nan stays)
MaxWithZero(price) ==
    IF IsFloat(price)
    THEN IF price.neg THEN Whole(0) ELSE price
    ELSE IF price.den > 0 /\ price.num < 0 THEN Whole(0) ELSE price

\* the dictionary predict returns, from the preprocessing, the predictions
\* and the final prediction
PredictResult(pre, predictions, final_pred) ==
    [raised |-> FALSE,
     predicted_price |-> final_pred,
     predicted_price_formatted |-> [Rp |-> final_pred],
     predicted_price_miliar |->
        IF IsFloat(final_pred)
        THEN FloatDiv(final_pred, FloatOfMillions(1000))
        ELSE [num |-> final_pred.num, den |-> final_pred.den * 1000],
     confidence_interval |->
        IF Uncertainty(predictions).variance.num > 0
        THEN [around |-> final_pred,
              uncertainty |-> Uncertainty(predictions)]
        ELSE None,
     uncertainty |-> Uncertainty(predictions),
     property_category |-> classify_harga(final_pred),
     zona |-> pre.preprocessing_info.zona_mapped,
     preprocessing_info |-> pre.preprocessing_info,
     frame |-> pre.frame]

\* raise HTTPException(status_code=500, ...) out of predict
PredictRaised == [raised |-> TRUE, status_code |-> 500]

\* predictions, when no regressor raises
OutputsOfModels(self) ==
    SeqOf(Len(self.models), LAMBDA k : self.models[k].base)

\* the body of predict after the preprocessing
PredictFrom(self, pre) ==
    LET X == pre.df_scaled
        predictions ==
            SeqOf(Len(self.models), LAMBDA k : self.models[k].base)
        ensemble_pred ==
            IF self.model_weights # <<>>
            THEN np_average(predictions, self.model_weights)
            ELSE np_mean(predictions)
        final_pred ==
            IF self.ensemble_model # None
            THEN [num |-> self.ensemble_model.base, den |-> 1]
            ELSE ensemble_pred
    IN  IF \/ pre.raised
           \/ \E k \in 1..Len(self.models) : ModelRaises(self.models[k], X)
           \/ (self.model_weights # <<>>
                 /\ AverageRaises(predictions, self.model_weights))
           \/ (self.ensemble_model # None
                 /\ ModelRaises(self.ensemble_model, X))
        THEN PredictRaised
        ELSE PredictResult(pre, predictions, MaxWithZero(final_pred))

NoCalls == [preprocess_input |-> 0, model_predict |-> 0]

\* how many model.predict calls predict makes after the preprocessing: the
\* regressors in order up to the first that raises, then, unless np.average
\* raised, the meta-model if there is one
ModelCalls(self, pre) ==
    LET X == pre.df_scaled
        raising == {k \in 1..Len(self.models) : ModelRaises(self.models[k], X)}
    IN  IF pre.raised THEN 0
        ELSE IF raising # {} THEN SetMin(raising)
        ELSE IF self.model_weights # <<>>
                /\ AverageRaises(OutputsOfModels(self), self.model_weights)
        THEN Len(self.models)
        ELSE IF self.ensemble_model # None THEN Len(self.models) + 1
        ELSE Len(self.models)

\* the calls one predict(self, input_data) makes
CallsOf(self, input_data) ==
    Apply(LAMBDA pre : [preprocess_input |-> 1,
                        model_predict |-> ModelCalls(self, pre)],
          preprocess_input(self, input_data))

\* predict(self, input_data): the dictionary, or HTTPException(500) for any
\* exception inside
predict(self, input_data) ==
    Apply(LAMBDA pre : PredictFrom(self, pre),
          preprocess_input(self, input_data))

\* ------------------------------------------ the functions, called alone

MaxDaya == 6000

ZonaKeys == {zona_mapping[i][1] : i \in 1..Len(zona_mapping)}

ExtraLokasi ==
    { <<>>, <<" ">>, <<" ", "\t", " ">>, CommaSemarang,
      <<" ">> \o CommaSemarang \o <<" ">>,
      <<"J","a","k","a","r","t","a">>, <<"K","u","d","u","s">>,
      <<"X","Y","Z">>, <<"Q">>, <<"a">>,
      <<"S","e","m","a","r","a","n","g">>, <<"T","i","m","u","r">>,
      <<"t","e","m","b","a","l","a","n","g"," ","b","a","r","u">>,
      <<"J","l","."," ","P","e","m","u","d","a"," ",
        "T","e","m","b","a","l","a","n","g">>,
      <<"P","e","m","u","d","a"," ","T","u","g","u">>,
      <<"T","e","m","b","a","l","a","n","g">> \o CommaSemarang
          \o <<" ","T","i","m","u","r">>,
      <<"U","n","g","a","r","a","n"," ","T","e","n","g","a","h">> }

LokasiTexts ==
    ZonaKeys \cup {lower(k) : k \in ZonaKeys}
        \cup {k \o CommaSemarang : k \in ZonaKeys}
        \cup {<<" ">> \o k \o <<" ", " ">> : k \in ZonaKeys}
        \cup ExtraLokasi

LokasiInputs == {None} \cup {Str(l) : l \in LokasiTexts}

DayaInputs == {None} \cup {Num(c) : c \in (0 - 1)..MaxDaya}

KondisiKeys ==
    {kondisi_mapping_properti[k][1] : k \in 1..Len(kondisi_mapping_properti)}
    \cup {kondisi_mapping_perabotan[k][1] :
              k \in 1..Len(kondisi_mapping_perabotan)}

\* the keys of both tables as they are, lower-cased and padded, two in capitals,
\* and texts that are parts of keys, contain keys or match none
KondisiInputTexts ==
    KondisiKeys \cup {lower(k) : k \in KondisiKeys}
        \cup {<<"F","U","R","N","I","S","H","E","D">>, <<"B","A","I","K">>}
        \cup {<<" ">> \o k \o <<" ", " ">> : k \in KondisiKeys}
        \cup {<<>>,
              <<" ">>,
              <<"m","e","w","a","h">>,
              <<"R","U","S","A","K"," ","b","e","r","a","t">>,
              <<" ","f","u","l","l","y"," ","f","u","r","n","i","s","h","e","d">>,
              <<"S","e","m","i">>,
              <<" ","s","e","m","i"," ">>,
              <<"a">>,
              <<"f","u","r","n","i","s","h">>,
              <<"B","a","g","u","s"," ","S","e","k","a","l","i">>,
              <<"p","e","r","l","u"," ","r","e","n","o","v","a","s","i"," ","t","o","t","a","l">>,
              <<"T","I","D","A","K">>,
              <<"x","y","z">>,
              <<"B","e","l","u","m"," ","B","e","r","p","e","r","a","b","o","t">>,
              <<"r","u","s","a","k"," ","/"," ","k","o","s","o","n","g">>,
              <<"N","o","n","e">>}

KondisiInputs == {None} \cup {Str(x) : x \in KondisiInputTexts}

FnCalls ==
    {[fn |-> "map_lokasi_to_zona", arg |-> a] : a \in LokasiInputs}
        \cup {[fn |-> "classify_daya", arg |-> a] : a \in DayaInputs}
        \cup {[fn |-> "standardize_kondisi", arg |-> a, kondisi_type |-> t] :
                 a \in KondisiInputs, t \in {"properti", "perabotan"}}

InitFn ==
    /\ pipeline_components = None
    /\ predictor = None
    /\ pc = "call"
    /\ request \in FnCalls
    /\ df = None
    /\ response = None
    /\ calls = NoCalls

Call_map_lokasi_to_zona ==
    /\ pc = "call"
    /\ request.fn = "map_lokasi_to_zona"
    /\ response' = map_lokasi_to_zona(request.arg)
    /\ pc' = "return"
    /\ UNCHANGED <<pipeline_components, predictor, request, df, calls>>

Call_classify_daya ==
    /\ pc = "call"
    /\ request.fn = "classify_daya"
    /\ response' = classify_daya(request.arg)
    /\ pc' = "return"
    /\ UNCHANGED <<pipeline_components, predictor, request, df, calls>>

Call_standardize_kondisi ==
    /\ pc = "call"
    /\ request.fn = "standardize_kondisi"
    /\ response' = standardize_kondisi(request.arg, request.kondisi_type)
    /\ pc' = "return"
    /\ UNCHANGED <<pipeline_components, predictor, request, df, calls>>

NextFn ==
    \/ Call_map_lokasi_to_zona
    \/ Call_classify_daya
    \/ Call_standardize_kondisi

SpecFn == InitFn /\ [][NextFn]_vars

Returned(fn) == pc = "return" /\ request.fn = fn

\* C3: map_lokasi_to_zona gives "Semarang Lainnya" whenever the location is
\* null or is empty once trimmed and rid of ", Semarang".
C3_EmptyLokasiIsLainnya ==
    (Returned("map_lokasi_to_zona")
        /\ (IsNone(request.arg) \/ CleanLokasi(request.arg.s) = <<>>))
    => response = Semarang_Lainnya

\* C4: for a text location, cleaned to l: (a) if l is a key of the table the
\* result is that key's zone; (b) otherwise it is the zone of the first
\* entry, in insertion order, whose lower-cased key contains lower-cased l
\* or is contained in it; (c) with no such entry it is "Semarang Lainnya".
C4_ZoneResolutionOrder ==
    (Returned("map_lokasi_to_zona") /\ IsStr(request.arg))
    => LET l == CleanLokasi(request.arg.s)
           exact == {i \in 1..Len(zona_mapping) : zona_mapping[i][1] = l}
           fuzzy == {i \in 1..Len(zona_mapping) :
                        \/ contains(lower(zona_mapping[i][1]), lower(l))
                        \/ contains(lower(l), lower(zona_mapping[i][1]))}
       IN  /\ \A i \in exact : response = zona_mapping[i][2]
           /\ (exact = {} /\ fuzzy # {})
                 => response = zona_mapping[SetMin(fuzzy)][2]
           /\ (exact = {} /\ fuzzy = {}) => response = Semarang_Lainnya

\* a text with no exact key, containing the keys "Tembalang" (Timur, entry
\* 42) and "Pemuda" (Tengah, a later entry): the earlier entry decides
C4_Witness ==
    /\ Returned("map_lokasi_to_zona")
    /\ request.arg = Str(<<"J","l","."," ","P","e","m","u","d","a"," ",
                           "T","e","m","b","a","l","a","n","g">>)
    /\ response = Semarang_Timur

TierIndex(tier) == CHOOSE k \in 1..Len(all_daya) : all_daya[k] = tier

\* C5: classify_daya is the seven-band ladder with inclusive upper
\* boundaries, a null capacity gives Menengah_1300VA, and the tier index
\* does not decrease when the capacity grows.
C5_DayaLadder ==
    Returned("classify_daya")
    => LET c == request.arg.v
           r == response
       IN  IF IsNone(request.arg) THEN r = Menengah_1300VA
           ELSE /\ (c <= 450) <=> (r = Dasar_450VA)
                /\ (450 < c /\ c <= 900) <=> (r = Standar_900VA)
                /\ (900 < c /\ c <= 1300) <=> (r = Menengah_1300VA)
                /\ (1300 < c /\ c <= 2200) <=> (r = Tinggi_2200VA)
                /\ (2200 < c /\ c <= 3500) <=> (r = Premium_3500VA)
                /\ (3500 < c /\ c <= 5500) <=> (r = Luxury_5500VA)
                /\ (c > 5500) <=> (r = Ultra_5500VA_Plus)
                /\ TierIndex(r) <= TierIndex(classify_daya(Num(c + 1)))

C5_Witness ==
    /\ Returned("classify_daya")
    /\ request.arg = Num(450)
    /\ response = Dasar_450VA
    /\ classify_daya(Num(451)) = Standar_900VA


\* the table of a kind, its canonical labels and its first label
TableOf(kondisi_type) ==
    IF kondisi_type = "properti" THEN kondisi_mapping_properti
    ELSE kondisi_mapping_perabotan

CanonicalOf(kondisi_type) ==
    IF kondisi_type = "properti" THEN {Bagus, Renovasi}
    ELSE {Tidak_Berperabot, Semi_Furnished, Furnished}

FirstLabelOf(kondisi_type) ==
    IF kondisi_type = "properti" THEN Bagus ELSE Tidak_Berperabot

\* the entries whose key, compared without case, occurs in the trimmed text
\* or has the trimmed text in it
MatchingEntries(text, kondisi_type) ==
    {k \in 1..Len(TableOf(kondisi_type)) :
        \/ contains(lower(strip(text)), lower(TableOf(kondisi_type)[k][1]))
        \/ contains(lower(TableOf(kondisi_type)[k][1]), lower(strip(text)))}

\* C15: for both kinds, standardize_kondisi gives the kind's default for a
\* null input, the first canonical label of the table for a text that
\* matches no key, and otherwise the value of the first matching key; the
\* result is always a canonical label of the kind, never the input text.
C15_KondisiTotalAndClosed ==
    Returned("standardize_kondisi")
    => LET kind == request.kondisi_type
       IN  /\ response \in CanonicalOf(kind)
           /\ IsNone(request.arg) => response = FirstLabelOf(kind)
           /\ IsStr(request.arg)
                 => LET matching == MatchingEntries(request.arg.s, kind)
                    IN  IF matching = {} THEN response = FirstLabelOf(kind)
                        ELSE response = TableOf(kind)[SetMin(matching)][2]

\* " semi " matches no key of the furnishing table but is part of the key
\* "Semi Furnished"; "mewah" matches nothing and gives the first label
C15_Witness ==
    /\ Returned("standardize_kondisi")
    /\ request.kondisi_type = "perabotan"
    /\ \/ /\ request.arg = Str(<<" ","s","e","m","i"," ">>)
          /\ response = Semi_Furnished
       \/ /\ request.arg = Str(<<"m","e","w","a","h">>)
          /\ MatchingEntries(request.arg.s, "perabotan") = {}
          /\ response = Tidak_Berperabot

\* C17: every key of a synonym table standardizes to the label the table
\* assigns to it, for both kinds, and standardize_kondisi applied to its
\* own result gives that result again.
C17_KeysKeepTheirLabel ==
    Returned("standardize_kondisi")
    => LET kind == request.kondisi_type
       IN  /\ \A k \in 1..Len(TableOf(kind)) :
                 request.arg = Str(TableOf(kind)[k][1])
                     => response = TableOf(kind)[k][2]
           /\ standardize_kondisi(Str(response), kind) = response

\* "Furnished" is part of the earlier key "Unfurnished"
C17_Observed ==
    /\ Returned("standardize_kondisi")
    /\ request.kondisi_type = "perabotan"
    /\ request.arg = Str(Furnished)
    /\ response = Tidak_Berperabot

\* ------------------------------------------- preprocess_input, called alone

Zona_Lainnya_Col == Prefix_Zona \o Semarang_Lainnya

Harga_per_m2 == <<"H","a","r","g","a","_","p","e","r","_","m","2">>

DefaultSelected ==
    <<Luas_Bangunan, Luas_Tanah, Kamar_Tidur, Zona_Lainnya_Col,
      Daya_per_Luas, Luxury_Score, Harga_per_m2>>

AllKeys == RequiredKeys \cup {"model_weights"}

DefaultComponents ==
    Components(AllKeys, <<Model(900, NoColumn), Model(1100, NoColumn)>>,
               None, FALSE, DefaultSelected, <<>>)

Tembalang == <<"T","e","m","b","a","l","a","n","g">>

Jakarta == <<"J","a","k","a","r","t","a">>

EmptyPayload(lokasi) ==
    [lokasi |-> Str(lokasi), kamar_tidur |-> None, kamar_mandi |-> None,
     luas_tanah |-> None, luas_bangunan |-> None, carport |-> None,
     daya_listrik |-> None, jumlah_lantai |-> None,
     kondisi_properti |-> None, kondisi_perabotan |-> None]

\* payloads in which the fields the two heuristics read vary together
HeuristicPayloads ==
    {[EmptyPayload(Tembalang) EXCEPT
         !.kamar_tidur = kt, !.luas_bangunan = lb, !.daya_listrik = dl,
         !.jumlah_lantai = jl] :
       kt \in {None, Num(0 - 2), Num(0), Num(2), Num(3), Num(4), Num(11),
               Str(<<"3"," ","K","T">>), Str(<<"d","u","a">>)},
       lb \in {None, Num(0), Num(69), Num(70), Num(119), Num(120), Num(149),
               Num(150), Num(199), Num(200), Num(1001),
               Str(<<"1","2","0"," ","m","2">>), Str(<<"1","2","0">>),
               Str(<<"1","2","0"," ","m">>), Str(<<"l","u","a","s">>)},
       dl \in {None, Num(0), Num(450), Num(451), Num(5501),
               Str(<<"2","2","0","0"," ","V","A">>)},
       jl \in {None, Num(0), Num(2), Num(5), Str(<<"2"," ","l","t">>)}}

\* payloads in which the other numeric fields vary together
OtherNumericPayloads ==
    {[EmptyPayload(Jakarta) EXCEPT
         !.kamar_mandi = km, !.luas_tanah = lt, !.carport = cp] :
       km \in {None, Num(0), Num(1), Num(10), Num(11),
               Str(<<"2"," ","k","m">>)},
       lt \in {None, Num(0 - 10), Num(0), Num(1), Num(2000), Num(2001),
               Str(<<"1","5","0"," ","m","e","t","e","r">>),
               Str(<<"1",".","5",".","2">>), Str(<<"a","b","c">>)},
       cp \in {None, Num(0 - 1), Num(0), Num(5), Num(6),
               Str(<<"2"," ","m","o","b","i","l">>), Str(<<"-">>)}}

KondisiTexts(kondisi_type) ==
    {kondisi_mapping(kondisi_type)[k][1] :
        k \in 1..Len(kondisi_mapping(kondisi_type))}
    \cup {<<>>, <<" ">>, <<"m","e","w","a","h">>,
          <<"R","U","S","A","K"," ","b","e","r","a","t">>,
          <<" ","f","u","l","l","y"," ","f","u","r","n","i","s","h","e","d">>}

\* payloads in which the location and the two condition texts vary together
TextPayloads ==
    {[EmptyPayload(lokasi) EXCEPT
         !.kondisi_properti = kp, !.kondisi_perabotan = kf] :
       lokasi \in {Tembalang, Jakarta, <<>>, lower(Tembalang),
                   <<"P","e","m","u","d","a"," ","T","u","g","u">>},
       kp \in {None} \cup {Str(x) : x \in KondisiTexts("properti")},
       kf \in {None} \cup {Str(x) : x \in KondisiTexts("perabotan")}}

\* complete records: every numeric field present, positive and within the
\* validation ranges, both condition labels canonical
CompletePayloads ==
    {[lokasi |-> Str(Tembalang), kamar_tidur |-> Num(kt),
      kamar_mandi |-> Num(km), luas_tanah |-> Num(lt),
      luas_bangunan |-> Num(lb), carport |-> Num(cp),
      daya_listrik |-> Num(dl), jumlah_lantai |-> Num(jl),
      kondisi_properti |-> Str(kp), kondisi_perabotan |-> Str(kf)] :
       kt \in {1, 10}, km \in {1, 10}, lt \in {1, 2000}, lb \in {1, 1000},
       cp \in {1, 5}, dl \in {1, 7700}, jl \in {1, 4},
       kp \in {Bagus, Renovasi},
       kf \in {Tidak_Berperabot, Semi_Furnished, Furnished}}

PrePayloads ==
    HeuristicPayloads \cup OtherNumericPayloads \cup TextPayloads
        \cup CompletePayloads

\* names of selected features: columns of the frame, columns the frame has
\* dropped (Lokasi, Kondisi Properti) and names the frame never had
SelectedNames ==
    {Luas_Bangunan, Luas_Bangunan_log, Luxury_Score, Price_per_sqm,
     Zona_Lainnya_Col, Harga_per_m2,
     <<"L","o","k","a","s","i">>,
     <<"K","o","n","d","i","s","i"," ","P","r","o","p","e","r","t","i">>,
     <<"U","m","u","r","_","B","a","n","g","u","n","a","n">>,
     <<"L","O","G","_","H","a","r","g","a">>,
     <<"L","u","a","s","_","l","o","g","_","r","a","t","i","o">>,
     <<"P","r","i","c","e","_","R","a","t","i","o">>,
     <<"P","e","r","f","o","r","m","a","n","c","e","_","S","c","o","r","e">>,
     <<"Q","u","a","l","i","t","y","_","S","c","o","r","e">>}

\* selected_features of one or two names, in either order and with
\* repetition, and two long lists
SelectedLists ==
    {<<a>> : a \in SelectedNames}
    \cup {<<a, b>> : a \in SelectedNames, b \in SelectedNames}
    \cup {DefaultSelected,
          <<<<"Q","u","a","l","i","t","y","_","S","c","o","r","e">>, Luas_Tanah_log, <<"P","e","r","f","o","r","m","a","n","c","e","_","S","c","o","r","e">>, Luxury_Score,
            <<"U","m","u","r","_","B","a","n","g","u","n","a","n">>, <<"L","u","a","s","_","l","o","g","_","r","a","t","i","o">>, <<"L","O","G","_","H","a","r","g","a">>,
            Kamar_Tidur, <<"P","r","i","c","e","_","R","a","t","i","o">>, <<"L","o","k","a","s","i">>>>}

\* payloads whose building area is imputed, kept or clamped
SelectionPayloads ==
    {[EmptyPayload(Tembalang) EXCEPT !.luas_bangunan = lb] :
        lb \in {None, Num(69), Num(1001)}}

SelectedComponents(selected_features) ==
    Components(AllKeys, <<Model(900, NoColumn), Model(1100, NoColumn)>>,
               None, FALSE, selected_features, <<>>)

InitPre ==
    /\ \/ /\ pipeline_components = DefaultComponents
          /\ request \in {[fn |-> "preprocess_input", arg |-> a] :
                              a \in PrePayloads}
       \/ /\ pipeline_components \in
                {SelectedComponents(l) : l \in SelectedLists}
          /\ request \in {[fn |-> "preprocess_input", arg |-> a] :
                              a \in SelectionPayloads}
    /\ predictor = SmartHomePricePrediction(pipeline_components)
    /\ pc = "call"
    /\ df = None
    /\ response = None
    /\ calls = NoCalls

\* PropertyInput(**payload), then predictor.preprocess_input(input_data)
Call_preprocess_input ==
    /\ pc = "call"
    /\ request.fn = "preprocess_input"
    /\ LET out == preprocess_input(predictor, PropertyInput(request.arg))
       IN  /\ df' = out.frame
           /\ response' = [raised |-> out.raised,
                           raw_data |-> out.raw_data,
                           df_scaled |-> out.df_scaled,
                           preprocessing_info |-> out.preprocessing_info]
    /\ calls' = [preprocess_input |-> 1, model_predict |-> 0]
    /\ pc' = "return"
    /\ UNCHANGED <<pipeline_components, predictor, request>>

NextPre == Call_preprocess_input

SpecPre == InitPre /\ [][NextPre]_vars


InSeq(x, seq) == \E k \in 1..Len(seq) : seq[k] = x

C1_Payload ==
    [EmptyPayload(Tembalang) EXCEPT
        !.luas_bangunan = Str(<<"1","2","0"," ","m","2">>),
        !.kamar_tidur = Num(3)]

\* C1: for lokasi "Tembalang", luas_bangunan "120 m2", kamar_tidur 3 and
\* nothing else, preprocessing gives zone Semarang Timur, kamar_tidur 3 and
\* luas_bangunan 120 (neither imputed), kamar_mandi 2, luas_tanah 150,
\* daya_listrik 1300 and jumlah_lantai 1 (all four imputed).
C1_TembalangExample ==
    (Returned("preprocess_input") /\ request.arg = C1_Payload)
    => LET r == response.raw_data
           info == response.preprocessing_info
       IN  /\ info.zona_mapped = Semarang_Timur
           /\ r.Kamar_Tidur = 3
           /\ r.Luas_Bangunan = 120
           /\ r.Kamar_Mandi = 2
           /\ r.Luas_Tanah = 150
           /\ r.Daya_Listrik = 1300
           /\ r.Jumlah_Lantai = 1
           /\ \A f \in {Kamar_Mandi, Luas_Tanah, Daya_Listrik, Jumlah_Lantai} :
                  InSeq(f, info.missing_fields)
           /\ ~InSeq(Luas_Bangunan, info.missing_fields)
           /\ ~InSeq(Kamar_Tidur, info.missing_fields)

\* what the code does on the payload of C1: "120 m2" is cleaned to "1202"
C1_Observed ==
    /\ Returned("preprocess_input") /\ request.arg = C1_Payload
    /\ PropertyInput(request.arg).luas_bangunan = Num(1202)
    /\ response.raw_data.Luas_Bangunan = 1000
    /\ response.raw_data.Daya_Listrik = 2200
    /\ response.raw_data.Jumlah_Lantai = 2
    /\ ~InSeq(Luas_Bangunan, response.preprocessing_info.missing_fields)

InRange(x, limit) == IsInt(x) /\ 0 < x.v /\ x.v <= limit

\* the payload is a complete record with canonical condition labels
CompleteRecord(p) ==
    /\ InRange(p.kamar_tidur, 10)
    /\ InRange(p.kamar_mandi, 10)
    /\ InRange(p.luas_tanah, 2000)
    /\ InRange(p.luas_bangunan, 1000)
    /\ InRange(p.carport, 5)
    /\ IsInt(p.daya_listrik) /\ 0 < p.daya_listrik.v
    /\ InRange(p.jumlah_lantai, 4)
    /\ IsStr(p.kondisi_properti)
    /\ p.kondisi_properti.s \in {Bagus, Renovasi}
    /\ IsStr(p.kondisi_perabotan)
    /\ p.kondisi_perabotan.s \in {Tidak_Berperabot, Semi_Furnished, Furnished}

\* C2: on a complete record with canonical condition labels the imputation,
\* standardization and clamp stage reports no imputed field and changes no
\* value, the two condition labels included.
C2_CompleteRecordUnchanged ==
    (Returned("preprocess_input") /\ CompleteRecord(request.arg))
    => LET r == response.raw_data
           p == request.arg
       IN  /\ response.preprocessing_info.missing_fields = <<>>
           /\ r.Kamar_Tidur = p.kamar_tidur.v
           /\ r.Kamar_Mandi = p.kamar_mandi.v
           /\ r.Luas_Tanah = p.luas_tanah.v
           /\ r.Luas_Bangunan = p.luas_bangunan.v
           /\ r.Carport = p.carport.v
           /\ r.Daya_Listrik = p.daya_listrik.v
           /\ r.Jumlah_Lantai = p.jumlah_lantai.v
           /\ r.Kondisi_Properti = p.kondisi_properti.s
           /\ r.Kondisi_Perabotan = p.kondisi_perabotan.s

\* exactly one column of the group is 1 and the others are 0
ExactlyOneHot(frame, prefix, labels) ==
    /\ \A k \in 1..Len(labels) : frame[prefix \o labels[k]] \in {0, 1}
    /\ Cardinality({k \in 1..Len(labels) : frame[prefix \o labels[k]] = 1}) = 1

\* C6: after preprocessing, whatever the input, each one-hot group has
\* exactly one indicator at 1 and the others at 0: the 6 zone indicators,
\* the 7 electrical-tier indicators, the 2 property-condition indicators and
\* the 3 furnishing-condition indicators.
C6_OneHotGroups ==
    Returned("preprocess_input")
    => /\ Len(all_zones) = 6 /\ Len(all_daya) = 7
       /\ Len(all_kondisi_properti) = 2 /\ Len(all_kondisi_perabotan) = 3
       /\ ExactlyOneHot(df, Prefix_Zona, all_zones)
       /\ ExactlyOneHot(df, Prefix_Daya, all_daya)
       /\ ExactlyOneHot(df, Prefix_Kondisi_Properti, all_kondisi_properti)
       /\ ExactlyOneHot(df, Prefix_Kondisi_Perabotan, all_kondisi_perabotan)

\* an unknown location and two unknown condition texts: the fallbacks are
\* the indicators at 1
C6_Witness ==
    /\ Returned("preprocess_input")
    /\ request.arg.lokasi = Str(Jakarta)
    /\ request.arg.kondisi_properti = Str(<<"m","e","w","a","h">>)
    /\ request.arg.kondisi_perabotan = Str(<<"m","e","w","a","h">>)
    /\ df[Prefix_Zona \o Semarang_Lainnya] = 1
    /\ df[Prefix_Kondisi_Properti \o Bagus] = 1
    /\ df[Prefix_Kondisi_Perabotan \o Tidak_Berperabot] = 1

Exceeds(x, limit) == IsInt(x) /\ x.v > limit

\* C7: the record that reaches the derived features has 0 < kamar_tidur <=
\* 10, 0 < kamar_mandi <= 10, 0 < luas_tanah <= 2000, 0 < luas_bangunan <=
\* 1000, carport <= 5 and 0 < jumlah_lantai <= 4, so that no quotient of the
\* derived features has a zero divisor, and a supplied value above its cap
\* is exactly the cap.
C7_RangesAfterClamp ==
    Returned("preprocess_input")
    => LET r == response.raw_data
           v == PropertyInput(request.arg)
       IN  /\ 0 < r.Kamar_Tidur /\ r.Kamar_Tidur <= 10
           /\ 0 < r.Kamar_Mandi /\ r.Kamar_Mandi <= 10
           /\ 0 < r.Luas_Tanah /\ r.Luas_Tanah <= 2000
           /\ 0 < r.Luas_Bangunan /\ r.Luas_Bangunan <= 1000
           /\ r.Carport <= 5
           /\ 0 < r.Jumlah_Lantai /\ r.Jumlah_Lantai <= 4
           /\ \A c \in {Rasio_Bangunan_Tanah, Luas_per_Kamar,
                        Rasio_Kamar_Mandi, Daya_per_Luas, Luxury_Score,
                        Efficiency_Score} : df[c].den # 0
           /\ Exceeds(v.kamar_tidur, 10) => r.Kamar_Tidur = 10
           /\ Exceeds(v.kamar_mandi, 10) => r.Kamar_Mandi = 10
           /\ Exceeds(v.luas_tanah, 2000) => r.Luas_Tanah = 2000
           /\ Exceeds(v.luas_bangunan, 1000) => r.Luas_Bangunan = 1000
           /\ Exceeds(v.carport, 5) => r.Carport = 5
           /\ Exceeds(v.jumlah_lantai, 4) => r.Jumlah_Lantai = 4

\* kamar_tidur 11 is capped to 10 and a luas_bangunan of 0 is replaced
C7_Witness ==
    /\ Returned("preprocess_input")
    /\ request.arg.kamar_tidur = Num(11)
    /\ request.arg.luas_bangunan = Num(0)
    /\ response.raw_data.Kamar_Tidur = 10
    /\ response.raw_data.Luas_Bangunan = 120
    /\ df[Luas_per_Kamar] = [num |-> 120, den |-> 10]


\* the value of a field is absent or not positive
Absent(x) == IsNone(x) \/ x.v <= 0

PositionIn(seq, x) == CHOOSE k \in 1..Len(seq) : seq[k] = x

\* the fields reported as imputed come in the order bedrooms, bathrooms,
\* land area, building area, carports, electrical capacity, floors; an absent
\* electrical capacity becomes 2200, 1300, 900 or 450 by the ladder and an
\* absent number of floors 2 or 1, both read from the bedrooms and the
\* building area as the earlier rules left them
C13_Rules ==
    LET raw == CleanedRawData(PropertyInput(request.arg))
        info == response.preprocessing_info
        bedrooms == IF Absent(raw.Kamar_Tidur) THEN 3 ELSE raw.Kamar_Tidur.v
        building_area == IF Absent(raw.Luas_Bangunan) THEN 120
                         ELSE raw.Luas_Bangunan.v
        capacity == IF building_area >= 200 \/ bedrooms >= 4 THEN 2200
                    ELSE IF building_area >= 120 \/ bedrooms >= 3 THEN 1300
                    ELSE IF building_area >= 70 THEN 900
                    ELSE 450
        floors == IF building_area >= 150 THEN 2 ELSE 1
    IN  /\ \A i, j \in 1..Len(info.missing_fields) :
              i < j => PositionIn(numeric_fields, info.missing_fields[i])
                          < PositionIn(numeric_fields, info.missing_fields[j])
        /\ \A f \in {Kamar_Tidur, Luas_Bangunan, Daya_Listrik, Jumlah_Lantai} :
              InSeq(f, info.missing_fields)
                  <=> Absent(CASE f = Kamar_Tidur -> raw.Kamar_Tidur
                               [] f = Luas_Bangunan -> raw.Luas_Bangunan
                               [] f = Daya_Listrik -> raw.Daya_Listrik
                               [] f = Jumlah_Lantai -> raw.Jumlah_Lantai)
        /\ Absent(raw.Daya_Listrik)
              => /\ info.imputed_values[Daya_Listrik] = capacity
                 /\ response.raw_data.Daya_Listrik = capacity
        /\ Absent(raw.Jumlah_Lantai)
              => /\ info.imputed_values[Jumlah_Lantai] = floors
                 /\ response.raw_data.Jumlah_Lantai = floors

\* bedrooms, building area and electrical capacity are all absent
C13_ThreeAbsent ==
    LET raw == CleanedRawData(PropertyInput(request.arg))
    IN  /\ Absent(raw.Kamar_Tidur)
        /\ Absent(raw.Luas_Bangunan)
        /\ Absent(raw.Daya_Listrik)

\* C13 as stated: the imputation rules run in the fixed order and the two
\* estimates read the already-imputed values, and an input without bedrooms,
\* building area and electrical capacity always gets electrical capacity
\* 1300 and floors 1.
C13_AlwaysOneFloor ==
    Returned("preprocess_input")
    => /\ C13_Rules
       /\ C13_ThreeAbsent
             => /\ response.raw_data.Daya_Listrik = 1300
                /\ response.raw_data.Jumlah_Lantai = 1

\* C13: the imputation rules run in the fixed order and the two estimates
\* read the already-imputed values; an input without bedrooms, building area
\* and electrical capacity always gets electrical capacity 1300 and, when
\* its number of floors is absent as well, floors 1.
C13_ImputationOrder ==
    Returned("preprocess_input")
    => /\ C13_Rules
       /\ C13_ThreeAbsent
             => /\ response.raw_data.Daya_Listrik = 1300
                /\ Absent(CleanedRawData(PropertyInput(request.arg))
                              .Jumlah_Lantai)
                      => response.raw_data.Jumlah_Lantai = 1

\* nothing but the location was sent: the capacity is estimated from the
\* defaults 3 and 120 that the earlier rules wrote
C13_Witness ==
    /\ Returned("preprocess_input")
    /\ request.arg = EmptyPayload(Tembalang)
    /\ response.preprocessing_info.missing_fields = numeric_fields
    /\ response.preprocessing_info.imputed_values[Daya_Listrik] = 1300
    /\ response.raw_data.Jumlah_Lantai = 1


HasPart(name, part) == contains(lower(name), part)

\* C14: the vector handed to the scaler and the models has exactly the names
\* of selected_features in their order; a name of the derived feature set
\* carries its derived value; an absent name carries 0 when its lower-cased
\* name contains "log", else 1 when it contains "ratio" or "per", else 0.1
\* times the clamped building area when it contains "score", else 0; no
\* name is left undefined and the call does not fail.
C14_SelectedFeatures ==
    Returned("preprocess_input")
    => LET selected == predictor.selected_features
           X == response.df_scaled
           derived == Frame(response.raw_data,
                            response.preprocessing_info.zona_mapped)
           synthesized(name) ==
               IF HasPart(name, <<"s","c","o","r","e">>)
                  /\ ~HasPart(name, <<"l","o","g">>)
                  /\ ~HasPart(name, <<"r","a","t","i","o">>)
                  /\ ~HasPart(name, <<"p","e","r">>)
               THEN [num |-> response.raw_data.Luas_Bangunan, den |-> 10]
               ELSE IF ~HasPart(name, <<"l","o","g">>)
                       /\ (HasPart(name, <<"r","a","t","i","o">>)
                           \/ HasPart(name, <<"p","e","r">>))
               THEN 1
               ELSE 0
       IN  /\ ~response.raised
           /\ Len(X) = Len(selected)
           /\ response.preprocessing_info.features_shape
                 = <<1, Len(selected)>>
           /\ \A k \in 1..Len(selected) :
                 /\ X[k].name = selected[k]
                 /\ X[k].value =
                       [scaled |-> IF selected[k] \in DOMAIN derived
                                   THEN derived[selected[k]]
                                   ELSE synthesized(selected[k])]

\* one list that meets every rule: "score" alone, "per" before "score",
\* neither, "log" before "ratio", upper-case "LOG", "ratio", a dropped
\* column, next to three derived columns, with the building area clamped
C14_Witness ==
    /\ Returned("preprocess_input")
    /\ request.arg.luas_bangunan = Num(1001)
    /\ Len(predictor.selected_features) = 10
    /\ [k \in 1..10 |-> response.df_scaled[k].value.scaled]
          = <<[num |-> 1000, den |-> 10], [log1p |-> 150], 1,
              [factors |-> <<2200, 1000, 2>>, den |-> 1000], 0, 0, 0, 3, 1,
              0>>


\* ------------------------------------------------------ predict, called alone

MaxModels == 3

ModelPrices == {0 - 300, 900, 1100}

WeightValues == {0, 1, 3}

\* the floats 1 / d
FloatWeightValues ==
    {FloatDiv(FloatOfInt(1), FloatOfInt(d)) : d \in {2, 3, 10}}

LadderPrices ==
    {0 - 1, 0, 499, 500, 999, 1000, 1999, 2000, 3499, 3500, 5999, 6000}

SeqsOfLen(S, n) == [1..n -> S]

Models(prices) == SeqOf(Len(prices), LAMBDA k : Model(prices[k], NoColumn))

EnsembleChoices == {None, Model(0 - 50, NoColumn), Model(700, NoColumn)}

\* lists of weights for n regressors: none, aligned ones, and ones too short
WeightLists(n) ==
    {<<>>} \cup SeqsOfLen({Whole(w) : w \in WeightValues}, n)
        \cup (IF n > 0
              THEN SeqsOfLen({Whole(w) : w \in WeightValues}, n - 1)
              ELSE {})

PredictorOf(prices, weights, ensemble) ==
    SmartHomePricePrediction(
        Components(AllKeys, Models(prices), ensemble, FALSE, DefaultSelected,
                   weights))

\* bundles of up to MaxModels regressors, with and without weights and a
\* meta-model
ProductPredictor(self) ==
    \E n \in 0..MaxModels :
        \E prices \in SeqsOfLen(ModelPrices, n), weights \in WeightLists(n),
           ensemble \in EnsembleChoices :
            self = PredictorOf(prices, weights, ensemble)

\* one-regressor bundles at the boundaries of the price ladder
LadderPredictor(self) ==
    \E price \in LadderPrices,
       ensemble \in {None} \cup {Model(q, NoColumn) : q \in LadderPrices} :
        self = PredictorOf(<<price>>, <<>>, ensemble)

\* two regressors with weights of which some are floats
FloatPredictor(self) ==
    \E prices \in SeqsOfLen(ModelPrices, 2),
       weights \in SeqsOfLen(FloatWeightValues \cup {Whole(1)}, 2),
       ensemble \in EnsembleChoices :
        self = PredictorOf(prices, weights, ensemble)

\* three regressors returning 900, 1000 and 1100 million, no meta-model,
\* no weights or equal weights
ExamplePredictor(self) ==
    \E weights \in {<<>>} \cup
          {<<w, w, w>> : w \in {Whole(1), Whole(3)} \cup FloatWeightValues} :
        self = PredictorOf(<<900, 1000, 1100>>, weights, None)

InitPredict ==
    /\ pipeline_components = None
    /\ \/ ProductPredictor(predictor)
       \/ LadderPredictor(predictor)
       \/ FloatPredictor(predictor)
       \/ ExamplePredictor(predictor)
    /\ pc = "call"
    /\ request = [fn |-> "predict", arg |-> EmptyPayload(Tembalang)]
    /\ df = None
    /\ response = None
    /\ calls = NoCalls

\* PropertyInput(**payload), then predictor.predict(input_data)
Call_predict ==
    /\ pc = "call"
    /\ request.fn = "predict"
    /\ \E out \in {predict(predictor, PropertyInput(request.arg))} :
          /\ df' = IF out.raised THEN None ELSE out.frame
          /\ response' = out
    /\ calls' = CallsOf(predictor, PropertyInput(request.arg))
    /\ pc' = "return"
    /\ UNCHANGED <<pipeline_components, predictor, request>>

NextPredict == Call_predict

SpecPredict == InitPredict /\ [][NextPredict]_vars

PriceNonNegative(p) == IF IsFloat(p) THEN ~p.neg ELSE p.num >= 0

\* two prices are the same number, or both nan
SamePrice(p, q) ==
    IF IsFloat(p) \/ IsFloat(q) THEN p = q
    ELSE /\ (p.den = 0) = (q.den = 0)
         /\ p.num * q.den = q.num * p.den

\* max(x, 0) of a quotient that is a number
ClampedAtZero(x) == IF x.num < 0 THEN [num |-> 0, den |-> 1] ELSE x

\* the outputs of the regressors of the bundle, in order
OutputsOf(self) == SeqOf(Len(self.models), LAMBDA k : self.models[k].base)

WholeWeights(self) ==
    \A k \in 1..Len(self.model_weights) : ~IsFloat(self.model_weights[k])

WeightOf(self, k) == self.model_weights[k].num

\* the weights are one per regressor and have a weighted average
WeightsUsable(self) ==
    /\ Len(self.model_weights) = Len(self.models)
    /\ WholeWeights(self)
          => SeqSum(SeqOf(Len(self.models),
                          LAMBDA k : WeightOf(self, k))) # 0

WeightedAverageOf(self) ==
    [num |-> SeqSum(SeqOf(Len(self.models),
                LAMBDA k : self.models[k].base * WeightOf(self, k))),
     den |-> SeqSum(SeqOf(Len(self.models), LAMBDA k : WeightOf(self, k)))]

\* C8: for every bundle, with a meta-model the final price is
\* max(meta-model output, 0) whatever the regressors' outputs and the weights
\* are; without one it is max(weighted average, 0) when weights are
\* configured and max(arithmetic mean, 0) otherwise; the returned price is
\* never negative.
C8_FinalPriceSelection ==
    Returned("predict")
    => IF predictor.ensemble_model # None
       THEN /\ ~response.raised
            /\ SamePrice(response.predicted_price,
                   ClampedAtZero([num |-> predictor.ensemble_model.base,
                                  den |-> 1]))
            /\ PriceNonNegative(response.predicted_price)
       ELSE IF predictor.model_weights # <<>>
       THEN WeightsUsable(predictor)
            => /\ ~response.raised
               /\ WholeWeights(predictor)
                     => SamePrice(response.predicted_price,
                           ClampedAtZero(WeightedAverageOf(predictor)))
               /\ PriceNonNegative(response.predicted_price)
       ELSE /\ ~response.raised
            /\ Len(predictor.models) > 0
                => SamePrice(response.predicted_price,
                      ClampedAtZero([num |-> SeqSum(OutputsOf(predictor)),
                                     den |-> Len(predictor.models)]))
            /\ PriceNonNegative(response.predicted_price)

\* what the code does with a meta-model and weights that sum to zero:
\* np.average raises before the meta-model is asked
C8_Observed ==
    /\ Returned("predict")
    /\ predictor.ensemble_model = Model(700, NoColumn)
    /\ OutputsOf(predictor) = <<900, 1100>>
    /\ predictor.model_weights = <<Whole(0), Whole(0)>>
    /\ response = PredictRaised

\* the price is a number
IsNumber(p) == IsFloat(p) \/ p.den > 0

\* the price is below k million
Below(p, k) ==
    IF IsFloat(p) THEN FloatLess(p, FloatMul(FloatOfInt(k), FloatOfInt(1000000)))
    ELSE p.num < k * p.den

\* the price is k million
Exactly(p, k) ==
    IF IsFloat(p) THEN p = FloatMul(FloatOfInt(k), FloatOfInt(1000000))
    ELSE p.den > 0 /\ p.num = k * p.den

PositiveWeight(w) ==
    IF IsFloat(w) THEN w.m # <<>> /\ ~w.neg ELSE w.num > 0

\* C9: the returned category is the ladder on the clamped final price p:
\* Ekonomis below 500 million, Menengah Bawah from 500 up to 1000, Menengah
\* from 1000 up to 2000, Menengah Atas from 2000 up to 3500, Premium from
\* 3500 up to 6000, Luxury from 6000 on, lower boundaries inclusive; three
\* regressors returning 900, 1000 and 1100 million, without meta-model and
\* with equal or no weights, give exactly 1000 million and Menengah.
C9_CategoryLadder ==
    (Returned("predict") /\ ~response.raised
        /\ IsNumber(response.predicted_price))
    => LET p == response.predicted_price
           category == response.property_category
       IN  /\ PriceNonNegative(p)
           /\ (category = "Ekonomis") = Below(p, 500)
           /\ (category = "Menengah Bawah")
                 = (~Below(p, 500) /\ Below(p, 1000))
           /\ (category = "Menengah")
                 = (~Below(p, 1000) /\ Below(p, 2000))
           /\ (category = "Menengah Atas")
                 = (~Below(p, 2000) /\ Below(p, 3500))
           /\ (category = "Premium")
                 = (~Below(p, 3500) /\ Below(p, 6000))
           /\ (category = "Luxury") = ~Below(p, 6000)
           /\ (/\ OutputsOf(predictor) = <<900, 1000, 1100>>
               /\ predictor.ensemble_model = None
               /\ \A i, j \in 1..Len(predictor.model_weights) :
                      /\ predictor.model_weights[i] = predictor.model_weights[j]
                      /\ PositiveWeight(predictor.model_weights[i]))
              => /\ Exactly(p, 1000)
                 /\ category = "Menengah"

\* what the code does with the three regressors and the weights 1/3, 1/3,
\* 1/3: the products sum to 999999999.9999999, which is 10^9 - 2^-23, the
\* weights sum to 1.0, and the price is below 1000 million
C9_Observed ==
    /\ Returned("predict")
    /\ OutputsOf(predictor) = <<900, 1000, 1100>>
    /\ predictor.ensemble_model = None
    /\ Len(predictor.model_weights) = 3
    /\ \A k \in 1..3 :
          predictor.model_weights[k]
              = FloatDiv(FloatOfInt(1), FloatOfInt(3))
    /\ ~response.raised
    /\ response.predicted_price
          = [neg |-> FALSE,
             m |-> BigSub(BigShiftLeft(BigOfInt(1000000000), 23), <<1>>),
             e |-> 0 - 23]
    /\ response.property_category = "Menengah Bawah"

\* ------------------------------------------------------------ the service

MaxBatchLen == 3

\* len(request.properties) > 100 is refused
BatchLimit == 100

Tugu == <<"T","u","g","u">>

\* ./models/smarthome_complete_pipeline.pkl: absent, not unpicklable, or
\* the pickle of a bundle
NoFile == [exists |-> FALSE, unpickles |-> FALSE, content |-> None]

BadFile == [exists |-> TRUE, unpickles |-> FALSE, content |-> None]

FileOf(components) ==
    [exists |-> TRUE, unpickles |-> TRUE, content |-> components]

\* the first regressor raises on a row of zone Semarang Lainnya
PickyModels ==
    <<Model(900, Zona_Lainnya_Col), Model(1100, NoColumn)>>

PlainModels == <<Model(900, NoColumn), Model(1100, NoColumn)>>

ServiceComponents ==
    { DefaultComponents,
      Components(AllKeys, PickyModels, None, FALSE, DefaultSelected, <<>>),
      Components(AllKeys, PickyModels, Model(700, NoColumn), FALSE,
                 DefaultSelected, <<Whole(1), Whole(3)>>),
      Components(AllKeys, PlainModels, Model(700, Zona_Lainnya_Col), FALSE,
                 DefaultSelected, <<>>),
      Components(AllKeys, PlainModels, None, TRUE, DefaultSelected, <<>>),
      Components(AllKeys, PlainModels, None, FALSE, DefaultSelected,
                 <<Whole(0), Whole(0)>>),
      Components(AllKeys \ {"model_weights"}, PlainModels, None, FALSE,
                 DefaultSelected, <<>>),
      Components(AllKeys \ {"scaler"}, PlainModels, None, FALSE,
                 DefaultSelected, <<>>) }

PipelineFiles == {NoFile, BadFile} \cup {FileOf(c) : c \in ServiceComponents}

BatchItems ==
    {EmptyPayload(Tembalang), EmptyPayload(Jakarta), EmptyPayload(Tugu)}

\* a long batch, every second item in no known zone
LongBatch(n) ==
    [k \in 1..n |->
        IF k % 2 = 0 THEN EmptyPayload(Jakarta) ELSE EmptyPayload(Tembalang)]

Batches ==
    UNION {SeqsOfLen(BatchItems, n) : n \in 0..MaxBatchLen}
        \cup {LongBatch(BatchLimit), LongBatch(BatchLimit + 1)}

SinglePayloads == BatchItems \cup {C1_Payload}

Init ==
    /\ pipeline_components = None
    /\ predictor = None
    /\ pc = "startup"
    /\ request = None
    /\ df = None
    /\ response = None
    /\ calls = NoCalls

\* startup_event: load_pipeline() on the file that is there
load_pipeline ==
    /\ pc = "startup"
    /\ \E file \in PipelineFiles :
          /\ request' = [endpoint |-> "startup", body |-> file]
          /\ IF ~file.exists \/ ~file.unpickles
             THEN /\ response' = FALSE
                  /\ UNCHANGED <<pipeline_components, predictor>>
             ELSE /\ pipeline_components' = file.content
                  /\ IF InitRaises(file.content)
                     THEN /\ response' = FALSE
                          /\ UNCHANGED predictor
                     ELSE /\ response' = TRUE
                          /\ predictor' =
                                SmartHomePricePrediction(file.content)
    /\ pc' = "responded"
    /\ UNCHANGED <<df, calls>>

\* the keys of the dictionary predict returns
ResultDict(out) ==
    [predicted_price |-> out.predicted_price,
     predicted_price_formatted |-> out.predicted_price_formatted,
     predicted_price_miliar |-> out.predicted_price_miliar,
     confidence_interval |-> out.confidence_interval,
     uncertainty |-> out.uncertainty,
     property_category |-> out.property_category,
     zona |-> out.zona,
     preprocessing_info |-> out.preprocessing_info]

\* health_check
health_check ==
    /\ pc = "serving"
    /\ request' = [endpoint |-> "/health", body |-> None]
    /\ response' =
          [status_code |-> 200,
           body |-> [status |-> IF pipeline_components # None
                                THEN "healthy" ELSE "unhealthy",
                     models_loaded |-> pipeline_components # None]]
    /\ pc' = "responded"
    /\ UNCHANGED <<pipeline_components, predictor, df, calls>>

\* mutant: a served prediction keeps the building area it worked with as
\* the default of the next request
predict_price_KeepsLastArea ==
    /\ pc = "serving"
    /\ \E payload \in SinglePayloads :
          /\ request' = [endpoint |-> "/predict", body |-> payload]
          /\ IF predictor = None
             THEN /\ response' = [status_code |-> 503]
                  /\ UNCHANGED <<df, calls, predictor>>
             ELSE /\ \E out \in {predict(predictor, PropertyInput(payload))} :
                       IF out.raised
                       THEN /\ response' = [status_code |-> 400]
                            /\ df' = None
                            /\ UNCHANGED predictor
                       ELSE /\ response' =
                                  [status_code |-> 200,
                                   body |-> ResultDict(out)]
                            /\ df' = out.frame
                            /\ predictor' =
                                  [predictor EXCEPT
                                     !.data_processor.default_values
                                        .luas_bangunan =
                                            out.frame[Luas_Bangunan]]
                  /\ calls' = CallsOf(predictor, PropertyInput(payload))
    /\ pc' = "responded"
    /\ UNCHANGED pipeline_components

\* predict_price: 503 without predictor; whatever predict raises is turned
\* into a 400
predict_price ==
    /\ pc = "serving"
    /\ \E payload \in SinglePayloads :
          /\ request' = [endpoint |-> "/predict", body |-> payload]
          /\ IF predictor = None
             THEN /\ response' = [status_code |-> 503]
                  /\ UNCHANGED <<df, calls>>
             ELSE /\ \E out \in {predict(predictor, PropertyInput(payload))} :
                       IF out.raised
                       THEN /\ response' = [status_code |-> 400]
                            /\ df' = None
                       ELSE /\ response' =
                                  [status_code |-> 200,
                                   body |-> ResultDict(out)]
                            /\ df' = out.frame
                  /\ calls' = CallsOf(predictor, PropertyInput(payload))
    /\ pc' = "responded"
    /\ UNCHANGED <<pipeline_components, predictor>>

\* one turn of batch_predict's loop: the result with its index, or the
\* error entry when predict raised
BatchEntry(self, property_data, i) ==
    Apply(LAMBDA out :
              IF out.raised
              THEN [index |-> i, error |-> [status_code |-> out.status_code],
                    predicted_price |-> None]
              ELSE [index |-> i] @@ ResultDict(out),
          predict(self, property_data))

BatchResults(self, properties) ==
    SeqOf(Len(properties),
          LAMBDA k : BatchEntry(self, properties[k], k - 1))

HasError(r) == "error" \in DOMAIN r

\* the loop without its inner try: the first failure fails the batch
BatchResponse_AbortOnFailure(self, properties) ==
    Apply(LAMBDA results :
              IF \E k \in 1..Len(results) : HasError(results[k])
              THEN [status_code |-> 400]
              ELSE [status_code |-> 200,
                    body |-> [total_properties |-> Len(properties),
                              successful_predictions |-> Len(results),
                              failed_predictions |-> 0,
                              results |-> results]],
          BatchResults(self, properties))

\* the dictionary batch_predict returns
BatchResponse(self, properties) ==
    Apply(LAMBDA results :
              [status_code |-> 200,
               body |->
                 [total_properties |-> Len(properties),
                  successful_predictions |->
                     Len(SelectSeq(results, LAMBDA r : ~HasError(r))),
                  failed_predictions |->
                     Len(SelectSeq(results, LAMBDA r : HasError(r))),
                  results |-> results]],
          BatchResults(self, properties))

\* the calls of the loop over the batch
BatchCalls(self, properties) ==
    Apply(LAMBDA each :
              [preprocess_input |->
                  SeqSum(SeqOf(Len(each),
                               LAMBDA k : each[k].preprocess_input)),
               model_predict |->
                  SeqSum(SeqOf(Len(each), LAMBDA k : each[k].model_predict))],
          SeqOf(Len(properties), LAMBDA k : CallsOf(self, properties[k])))

\* len(request.properties) > 100, with exactly 100 refused as well
TooMany_AtLimit(properties) == Len(properties) >= BatchLimit

\* len(request.properties) > 100
TooMany(properties) == Len(properties) > BatchLimit

\* the two checks of batch_predict in the other order
BatchRefusal_LimitFirst(self, properties) ==
    IF TooMany(properties) THEN [status_code |-> 400]
    ELSE IF self = None THEN [status_code |-> 503]
    ELSE None

\* the HTTPException batch_predict raises before its loop: 503 without
\* predictor, else 400 above the limit, else None
BatchRefusal(self, properties) ==
    IF self = None THEN [status_code |-> 503]
    ELSE IF TooMany(properties) THEN [status_code |-> 400]
    ELSE None

\* batch_predict
batch_predict ==
    /\ pc = "serving"
    /\ \E batch \in Batches :
          /\ request' = [endpoint |-> "/batch-predict", body |-> batch]
          /\ \E properties \in
                  {SeqOf(Len(batch), LAMBDA k : PropertyInput(batch[k]))} :
                IF BatchRefusal(predictor, properties) # None
                THEN /\ response' = BatchRefusal(predictor, properties)
                     /\ UNCHANGED calls
                ELSE /\ response' = BatchResponse(predictor, properties)
                     /\ calls' = BatchCalls(predictor, properties)
    /\ pc' = "responded"
    /\ UNCHANGED <<pipeline_components, predictor, df>>

\* the response is sent; the server waits for the next request
Respond ==
    /\ pc = "responded"
    /\ pc' = "serving"
    /\ request' = None
    /\ response' = None
    /\ df' = None
    /\ calls' = NoCalls
    /\ UNCHANGED <<pipeline_components, predictor>>

Next ==
    \/ load_pipeline
    \/ health_check
    \/ predict_price
    \/ batch_predict
    \/ Respond

Spec == Init /\ [][Next]_vars

Responded(endpoint) == pc = "responded" /\ request.endpoint = endpoint

\* predict raises on the payload
Throws(payload) == predict(predictor, PropertyInput(payload)).raised

\* how many items of the batch make predict raise
Throwing(batch) == Cardinality({k \in 1..Len(batch) : Throws(batch[k])})

\* C10: for a batch of n <= 100 items and a loaded predictor, whichever
\* items make predict raise, the response is not a failure of the whole
\* batch; results has n entries, entry k carries index k (from 0) and is the
\* entry of input item k, an entry is error-tagged exactly when its item's
\* prediction raised, and successful + failed = total = n with failed the
\* number of raising items.
C10_BatchIsolation ==
    (Responded("/batch-predict") /\ predictor # None
        /\ Len(request.body) <= BatchLimit)
    => /\ response.status_code = 200
       /\ LET batch == request.body
              n == Len(batch)
              body == response.body
              results == response.body.results
          IN  /\ Len(results) = n
              /\ \A k \in 1..n :
                    /\ results[k].index = k - 1
                    /\ HasError(results[k]) = Throws(batch[k])
                    /\ HasError(results[k])
                          => results[k].predicted_price = None
                    /\ ~HasError(results[k])
                          => /\ results[k].zona
                                    = map_lokasi_to_zona(batch[k].lokasi)
                             /\ results[k].preprocessing_info
                                    = predict(predictor,
                                              PropertyInput(batch[k]))
                                          .preprocessing_info
              /\ body.total_properties = n
              /\ body.successful_predictions + body.failed_predictions = n
              /\ body.failed_predictions = Throwing(batch)

\* a batch of three whose second item alone makes the prediction raise
C10_Witness ==
    /\ Responded("/batch-predict")
    /\ predictor # None
    /\ request.body
          = <<EmptyPayload(Tembalang), EmptyPayload(Jakarta),
              EmptyPayload(Tugu)>>
    /\ response.status_code = 200
    /\ ~HasError(response.body.results[1])
    /\ HasError(response.body.results[2])
    /\ ~HasError(response.body.results[3])
    /\ response.body.results[3].index = 2
    /\ response.body.results[3].zona = Semarang_Barat
    /\ response.body.failed_predictions = 1
    /\ response.body.successful_predictions = 2

\* C11: with a predictor, a batch of more than 100 items is refused before
\* anything is done (no item preprocessed or handed to a model, no results
\* array), and a batch of 100 items or fewer, the empty one included, is
\* accepted and processed.
C11_BatchLimit ==
    (Responded("/batch-predict") /\ predictor # None)
    => IF Len(request.body) > 100
       THEN /\ response.status_code = 400
            /\ "body" \notin DOMAIN response
            /\ calls = NoCalls
       ELSE /\ response.status_code = 200
            /\ Len(response.body.results) = Len(request.body)
            /\ response.body.total_properties = Len(request.body)
            /\ calls.preprocess_input = Len(request.body)

\* 101 items are refused and 100 were never counted as too many
C11_Witness ==
    /\ Responded("/batch-predict")
    /\ predictor # None
    /\ Len(request.body) = 101
    /\ response = [status_code |-> 400]
    /\ calls = NoCalls

\* C12: while predictor is None every /predict and every /batch-predict
\* request, whatever its payload (a batch over 100 items included), is
\* answered 503 before any preprocessing or model call, and the refusal
\* leaves the loaded or unloaded state as it is.
C12_UnavailableRejects ==
    [][(/\ pc = "serving"
        /\ predictor = None
        /\ pc' = "responded"
        /\ request'.endpoint \in {"/predict", "/batch-predict"})
       => /\ response' = [status_code |-> 503]
          /\ calls' = NoCalls
          /\ predictor' = None
          /\ pipeline_components' = pipeline_components]_vars

\* a batch over the limit, sent while nothing is loaded, is answered 503
C12_Witness ==
    /\ Responded("/batch-predict")
    /\ predictor = None
    /\ Len(request.body) = 101
    /\ response = [status_code |-> 503]
    /\ calls = NoCalls


\* C18: whatever load_pipeline met, /health reports models_loaded = true and
\* the status "healthy" exactly when predictor is not None, which is when
\* /predict and /batch-predict do not answer 503.
C18_HealthAgreesWithServing ==
    Responded("/health")
    => ((response.body.models_loaded /\ response.body.status = "healthy")
            <=> predictor # None)

\* a bundle without the key "scaler" was unpickled: pipeline_components
\* holds it, the constructor raised, and /health answers "healthy"
C18_Observed ==
    /\ Responded("/health")
    /\ pipeline_components # None
    /\ "scaler" \notin pipeline_components.keys
    /\ predictor = None
    /\ response.body = [status |-> "healthy", models_loaded |-> TRUE]


\* what /predict and /batch-predict answer when served by self
AnswerOf(self, endpoint, body) ==
    IF endpoint = "/predict"
    THEN Apply(LAMBDA out :
                   IF out.raised THEN [status_code |-> 400]
                   ELSE [status_code |-> 200, body |-> ResultDict(out)],
               predict(self, PropertyInput(body)))
    ELSE IF Len(body) > 100 THEN [status_code |-> 400]
    ELSE BatchResponse(self,
                       SeqOf(Len(body), LAMBDA k : PropertyInput(body[k])))

\* C16: a prediction request, single or batch, answered or refused, leaves
\* the loaded bundle (models, meta-model, scaler, selected_features,
\* weights), the zone table and the default table as they were, and its
\* answer is the one a predictor freshly built from the loaded bundle gives
\* to the same input, whatever was served before.
C16_RequestsLeaveSharedState ==
    [][(pc = "serving"
          /\ request'.endpoint \in {"/predict", "/batch-predict"})
       => /\ pipeline_components' = pipeline_components
          /\ predictor' = predictor
          /\ predictor # None
                => /\ predictor'.data_processor.zona_mapping = zona_mapping
                   /\ predictor'.data_processor.default_values
                         = default_values
                   /\ response' =
                         AnswerOf(SmartHomePricePrediction(
                                      pipeline_components),
                                  request'.endpoint, request'.body)]_vars

\* a single prediction was answered with the bundle and both tables as the
\* constructor left them
C16_Witness ==
    /\ Responded("/predict")
    /\ response.status_code = 200
    /\ request.body = C1_Payload
    /\ predictor = SmartHomePricePrediction(pipeline_components)
    /\ predictor.data_processor.default_values.luas_bangunan = 120

====
